---- MODULE Spec2Model ----
(***************************************************************************)
(* Streaming CSV search / replace engine of bulk_csv_editor.                *)
(*                                                                         *)
(*   search handler  : src/app/api/csv/process/route.ts (POST and          *)
(*                     processFilesWithAdvancedSearch)                     *)
(*   replay handler  : src/unnamed/part_000, second POST (lines 130-509)   *)
(*   artifact store  : src/unnamed/part_001 (saveProcessedFile, ...)       *)
(*                                                                         *)
(* One request is modelled from the moment its body has been read until the *)
(* progress channel is closed.  The handlers are single-threaded async     *)
(* functions: an action is the code that runs between two awaits.          *)
(* Strings that are matched against are sequences of one-character         *)
(* strings; field names, file names and paths are only compared and stay   *)
(* TLA+ strings.                                                           *)
(***************************************************************************)
EXTENDS Integers, Sequences, FiniteSets, TLC

----------------------------------------------------------------------------
(* Bounds of the model *)

MaxFiles == 2
MaxClock == 2

\* Rows of the longest file: more than one stats period.
ManyRows == 11

\* The longest `file` parameter of a download request, in characters.
MaxParam == 5

(* Program constant: a stats snapshot every 10 rows *)
StatsEvery == 10

----------------------------------------------------------------------------
(* Strings *)

\* An optional string that was not supplied (JavaScript undefined).
Undefined == <<"undefined">>

Range(s) == {s[i] : i \in 1..Len(s)}

\* String.prototype.toLowerCase on the model's alphabet.
Lower(c) == IF c = "A" THEN "a" ELSE IF c = "B" THEN "b" ELSE c

LowerStr(s) == [i \in 1..Len(s) |-> Lower(s[i])]

\* \w of the regular-expression engine, restricted to the model's alphabet.
IsWordChar(c) == c \in {"a", "A", "b", "B"}

\* String.prototype.trim() !== '' : some character is not white space.
IsBlank(s) == \A i \in 1..Len(s) : s[i] = " "

\* s.startsWith(p) when q = 1; in general: p occurs in s at position q.
OccursAt(s, p, q) ==
    /\ q >= 1
    /\ q + Len(p) - 1 <= Len(s)
    /\ \A j \in 1..Len(p) : s[q + j - 1] = p[j]

StartsWith(s, p) == OccursAt(s, p, 1)

EndsWith(s, p) == Len(p) <= Len(s) /\ OccursAt(s, p, Len(s) - Len(p) + 1)

Includes(s, p) == \E q \in 1..(Len(s) + 1) : OccursAt(s, p, q)

\* Array.prototype.join(' ') of a sequence of strings.
RECURSIVE JoinSpace(_)
JoinSpace(ss) ==
    IF ss = <<>> THEN <<>>
    ELSE IF Len(ss) = 1 THEN ss[1]
    ELSE ss[1] \o <<" ">> \o JoinSpace(Tail(ss))

----------------------------------------------------------------------------
(* Regular expressions.  A source pattern is a string; the characters "."  *)
(* (any character) and "(" (group opener) are the metacharacters of the    *)
(* model's alphabet.  The alphabet has no ")" so every "(" is an           *)
(* unterminated group and makes new RegExp throw a SyntaxError.            *)

\* searchTerm.replace(/[.*+?^${}()|[\]\\]/g, '\\$&'): every character becomes
\* a literal atom.
EscapeRegExp(term) == [i \in 1..Len(term) |-> [any |-> FALSE, ch |-> term[i]]]

\* The atoms of a pattern given as regular-expression source.
ParseRegExp(src) ==
    [i \in 1..Len(src) |-> [any |-> src[i] = ".", ch |-> src[i]]]

\* new RegExp(src) throws for this source.
RegExpThrows(src) == \E i \in 1..Len(src) : src[i] = "("

\* A compiled expression: atoms, the i flag, and \b...\b wrapping.
RegExpOf(atoms, ignoreCase, wordBounded) ==
    [atoms |-> atoms, ic |-> ignoreCase, wb |-> wordBounded]

AtomMatches(atom, c, ignoreCase) ==
    \/ atom.any
    \/ IF ignoreCase THEN Lower(atom.ch) = Lower(c) ELSE atom.ch = c

\* \b between positions q-1 and q of s.
WordBoundary(s, q) ==
    LET before == q - 1 >= 1 /\ q - 1 <= Len(s) /\ IsWordChar(s[q - 1])
        after  == q >= 1 /\ q <= Len(s) /\ IsWordChar(s[q])
    IN  before # after

\* RegExp.prototype.test with lastIndex = 0.
RegExpTest(re, s) ==
    LET n == Len(re.atoms) IN
    \E q \in 1..(Len(s) + 1) :
        /\ q + n - 1 <= Len(s)
        /\ \A j \in 1..n : AtomMatches(re.atoms[j], s[q + j - 1], re.ic)
        /\ re.wb => (WordBoundary(s, q) /\ WordBoundary(s, q + n))

----------------------------------------------------------------------------
(* Field Matcher and Row Predicate Evaluator (advanced mode) *)

\* buildFieldMatcher throws: new RegExp(cond.value, flags) on a bad pattern.
BuildFieldMatcherThrows(cond) == cond.mode = "regex" /\ RegExpThrows(cond.value)

\* The string relation of a non-regex mode, on the folded strings.
Relates(mode, hay, needle) ==
    CASE mode = "equals"     -> hay = needle
      [] mode = "startsWith" -> StartsWith(hay, needle)
      [] mode = "endsWith"   -> EndsWith(hay, needle)
      [] OTHER               -> Includes(hay, needle)

\* caseSensitive ? s : s.toLowerCase()
FoldCase(s, caseSensitive) == IF caseSensitive THEN s ELSE LowerStr(s)

\* buildFieldMatcher(cond, caseSensitive)(raw)
FieldMatch(cond, caseSensitive, raw) ==
    IF cond.mode = "regex"
    THEN RegExpTest(RegExpOf(ParseRegExp(cond.value), ~caseSensitive, FALSE), raw)
    ELSE Relates(cond.mode, FoldCase(raw, caseSensitive),
                 FoldCase(cond.value, caseSensitive))

\* Variant: the value is not trimmed before it is tested.
ActiveCondsUntrimmed(advanced) ==
    LET Active(c) == c.value # <<>> IN SelectSeq(advanced.conditions, Active)

\* (advanced.conditions || []).filter(c => c.value && c.value.trim() !== '')
ActiveConds(advanced) ==
    LET Active(c) == ~IsBlank(c.value) IN SelectSeq(advanced.conditions, Active)

\* The fields of the conditions of cs, in order.
CondFields(cs) == [i \in 1..Len(cs) |-> cs[i].field]

\* Variant: under AND as under OR one accepting condition is enough.
DecideAny(logic, active, hits) ==
    IF active = <<>>
    THEN [threw |-> FALSE, matches |-> TRUE, matchedFields |-> <<>>]
    ELSE IF \E i \in 1..Len(active) : BuildFieldMatcherThrows(active[i])
    THEN [threw |-> TRUE, matches |-> FALSE, matchedFields |-> <<>>]
    ELSE IF hits # <<>>
    THEN [threw |-> FALSE, matches |-> TRUE, matchedFields |-> CondFields(hits)]
    ELSE [threw |-> FALSE, matches |-> FALSE, matchedFields |-> <<>>]

\* Variant: under OR as under AND every active condition has to accept.
DecideAll(logic, active, hits) ==
    IF active = <<>>
    THEN [threw |-> FALSE, matches |-> TRUE, matchedFields |-> <<>>]
    ELSE IF \E i \in 1..Len(active) : BuildFieldMatcherThrows(active[i])
    THEN [threw |-> TRUE, matches |-> FALSE, matchedFields |-> <<>>]
    ELSE IF hits # <<>> /\ Len(hits) = Len(active)
    THEN [threw |-> FALSE, matches |-> TRUE, matchedFields |-> CondFields(hits)]
    ELSE [threw |-> FALSE, matches |-> FALSE, matchedFields |-> <<>>]

\* The decision of rowMatchesAdvanced from the active conditions and those
\* among them whose field exists and whose matcher accepts the cell: AND
\* wants them all, OR wants one.  threw: building a matcher threw (all
\* matchers are built before the first one is applied).
Decide(logic, active, hits) ==
    IF active = <<>>
    THEN [threw |-> FALSE, matches |-> TRUE, matchedFields |-> <<>>]
    ELSE IF \E i \in 1..Len(active) : BuildFieldMatcherThrows(active[i])
    THEN [threw |-> TRUE, matches |-> FALSE, matchedFields |-> <<>>]
    ELSE IF hits # <<>> /\ (logic = "OR" \/ Len(hits) = Len(active))
    THEN [threw |-> FALSE, matches |-> TRUE, matchedFields |-> CondFields(hits)]
    ELSE [threw |-> FALSE, matches |-> FALSE, matchedFields |-> <<>>]

\* rowMatchesAdvanced(row, headers, advanced)
RowMatchesAdvanced(row, headers, advanced) ==
    LET Hit(c) == /\ c.field \in Range(headers)
                  /\ ~BuildFieldMatcherThrows(c)
                  /\ FieldMatch(c, advanced.caseSensitive, row[c.field])
    IN  Decide(advanced.logic, ActiveConds(advanced),
               SelectSeq(ActiveConds(advanced), Hit))

----------------------------------------------------------------------------
(* Row Predicate Evaluator (simple mode) *)

\* new RegExp(searchPattern, searchFlags) throws for this request.
SearchRegexThrows(body) == body.useRegex /\ RegExpThrows(body.searchTerm)

\* The compiled searchRegex of a request.
SearchRegex(body) ==
    RegExpOf(IF body.useRegex THEN ParseRegExp(body.searchTerm)
                              ELSE EscapeRegExp(body.searchTerm),
             ~body.caseSensitive, body.wholeWord)

\* searchFields.map(field => (row[field] ?? '').toString()).join(' ')
RowText(row, headers) == JoinSpace([i \in 1..Len(headers) |-> row[headers[i]]])

\* Variant: the pattern is tested against each cell by itself.
RowMatchesSimplePerCell(row, headers, body) ==
    \E i \in 1..Len(headers) : RegExpTest(SearchRegex(body), row[headers[i]])

\* The row-level test of simple mode.
RowMatchesSimple(row, headers, body) == RegExpTest(SearchRegex(body), RowText(row, headers))

----------------------------------------------------------------------------
(* The files the environment holds.  A locator is the url of a file        *)
(* descriptor; the parse result of the text behind it is given as Papa     *)
(* returns it: meta.fields (trimmed by transformHeader) and data, one       *)
(* record per non-empty line.                                              *)

Row2(f1, v1, f2, v2) == (f1 :> v1) @@ (f2 :> v2)

Parsed(loc) ==
    CASE loc = "L1" ->
           [fields |-> <<"h1", "h2">>,
            data   |-> << Row2("h1", <<"a">>, "h2", <<"b">>),
                          Row2("h1", <<"b">>, "h2", <<"b">>),
                          Row2("h1", <<"A">>, "h2", <<>>) >>]
      [] loc = "L2" ->
           [fields |-> <<"h2", "h3">>,
            data   |-> [i \in 1..ManyRows |->
                          IF i \in {1, StatsEvery}
                          THEN Row2("h2", <<"a">>, "h3", <<"a">>)
                          ELSE Row2("h2", <<"b">>, "h3", <<>>)]]
      [] loc = "L3" ->
           [fields |-> <<"h1">>, data |-> <<>>]

\* A path "<dir>/<stem>.csv".
PathOf(dir, stem) == [dir |-> dir, stem |-> stem]

\* The file descriptors a client can send: two files share a display name,
\* one has only a header line, one carries no url.
D1 == [name |-> "a.csv", path |-> PathOf("p1", "a"), url |-> "L1"]
D2 == [name |-> "a.csv", path |-> PathOf("p2", "a"), url |-> "L2"]
D3 == [name |-> "c.csv", path |-> PathOf("p3", "c"), url |-> "L3"]
D4 == [name |-> "d.csv", path |-> PathOf("p4", "d"), url |-> ""]

Catalogue == <<D1, D2, D3, D4>>

\* Array.from(new Set(xs)): first occurrences, in order.
Dedup(xs) ==
    LET keep == {i \in 1..Len(xs) : \A j \in 1..(i - 1) : xs[j] # xs[i]}
        Pos(k) == CHOOSE i \in keep : Cardinality({j \in keep : j <= i}) = k
    IN  [k \in 1..Cardinality(keep) |-> xs[Pos(k)]]

\* Object.keys(rows[0] || {}), trimmed, empty names dropped, deduplicated.
HeadersOf(parsed) ==
    IF parsed.data = <<>> THEN <<>>
    ELSE LET NonEmpty(h) == h # "" IN Dedup(SelectSeq(parsed.fields, NonEmpty))

----------------------------------------------------------------------------
(* Progress events and running statistics *)

InitStats(n) ==
    [totalFiles |-> n, processedFiles |-> 0, totalRows |-> 0,
     processedRows |-> 0, totalMatches |-> 0, totalReplacements |-> 0,
     currentFile |-> ""]

Event(type, filename, data) == [type |-> type, filename |-> filename, data |-> data]

StatsEvent(st) == Event("stats", "", st)

\* Variant: a snapshot is sent after the last row only.
StatsDueLast(i, n) == i = n

\* if ((i + 1) % 10 === 0 || i === rows.length - 1) with i the 0-based offset;
\* here i is the 1-based position.
StatsDue(i, n) == i % StatsEvery = 0 \/ i = n

\* The accumulator of a row scan: retained rows, events sent, statistics,
\* per-file counters, whether the scan threw, whether the loop ran to its end.
InitScan(st) ==
    [out |-> <<>>, ev |-> <<>>, st |-> st, fileMatches |-> 0,
     fileReplacements |-> 0, threw |-> FALSE, scanned |-> FALSE]

RowProcessed(file, i, n, changes) ==
    Event("row-processed", file.name,
          [filePath |-> file.path, rowIndex |-> i, totalRows |-> n, matches |-> changes])

\* Variant: every row is reported, with or without change records.
EndOfRowReported(file, i, n, acc, changes) ==
    LET st1 == [acc.st EXCEPT !.processedRows = @ + 1]
        ev1 == acc.ev \o <<RowProcessed(file, i, n, changes)>>
        ev2 == IF StatsDue(i, n) THEN ev1 \o <<StatsEvent(st1)>> ELSE ev1
    IN  [acc EXCEPT !.st = st1, !.ev = ev2]

\* The end of a loop iteration: processedRows++, the row-processed event when
\* change records exist, the stats snapshot when due.
EndOfRow(file, i, n, acc, changes) ==
    LET st1 == [acc.st EXCEPT !.processedRows = @ + 1]
        ev1 == IF changes # <<>> THEN acc.ev \o <<RowProcessed(file, i, n, changes)>>
                                 ELSE acc.ev
        ev2 == IF StatsDue(i, n) THEN ev1 \o <<StatsEvent(st1)>> ELSE ev1
    IN  [acc EXCEPT !.st = st1, !.ev = ev2]

\* Variant: a rejected row is never retained.
UnmatchedRowDropped(file, showOnlyMatches, row, i, n, acc) ==
    EndOfRow(file, i, n, acc, <<>>)

\* The branch taken for a row the predicate rejected.
UnmatchedRow(file, showOnlyMatches, row, i, n, acc) ==
    EndOfRow(file, i, n,
             [acc EXCEPT !.out = IF showOnlyMatches THEN @ ELSE Append(@, row)],
             <<>>)

----------------------------------------------------------------------------
(* Replacement Applicator *)

\* for (const op of operations) { if (!headers.includes(op.field)) continue;
\*   if (oldValue !== newValue) { row[op.field] = newValue; changes.push(..) } }
RECURSIVE ApplyOps(_, _, _, _)
ApplyOps(row, headers, ops, changes) ==
    IF ops = <<>> THEN [row |-> row, changes |-> changes]
    ELSE LET op == Head(ops) IN
         IF op.field \notin Range(headers) \/ row[op.field] = op.value
         THEN ApplyOps(row, headers, Tail(ops), changes)
         ELSE ApplyOps([row EXCEPT ![op.field] = op.value], headers, Tail(ops),
                       Append(changes, [field |-> op.field, oldValue |-> row[op.field],
                                        newValue |-> op.value]))

\* Change records of search-only mode: one per listed field, old = new.
Unmodified(row, fields) ==
    [j \in 1..Len(fields) |->
        [field |-> fields[j], oldValue |-> row[fields[j]], newValue |-> row[fields[j]]]]

----------------------------------------------------------------------------
(* Row scan of the three pipelines.  i is the 1-based position of the row   *)
(* (the code's i + 1), n the number of parsed rows.                        *)

\* Variant: the simple pipeline always replaces.
IsReplaceModeSimpleAlways(body) == TRUE

\* replaceTerm !== undefined && replaceTerm !== ''
IsReplaceModeSimple(body) == body.replaceTerm # Undefined /\ body.replaceTerm # <<>>

\* !!(replaceTargetField && replaceValue !== undefined)
IsReplaceModeAdvanced(body) ==
    body.replaceTargetField # "" /\ body.replaceValue # Undefined

\* Variant: the replacement goes into every header.
ReplaceFieldsAll(selectedFields, headers) == headers

\* selectedFields.includes('All') || selectedFields.length === 0
\*   ? headers : selectedFields.filter(f => headers.includes(f))
ReplaceFields(selectedFields, headers) ==
    IF "All" \in Range(selectedFields) \/ selectedFields = <<>>
    THEN headers
    ELSE LET Known(f) == f \in Range(headers) IN SelectSeq(selectedFields, Known)

\* The single-target replacement as a list of operations.
SingleTargetOps(fields, value) ==
    [j \in 1..Len(fields) |-> [field |-> fields[j], value |-> value]]

\* if (!showOnlyMatches || rowMatched) with rowMatched known to be true.
KeepMatchedSimple(showOnlyMatches, changes) == ~showOnlyMatches \/ TRUE

\* if (!showOnlyMatches || rowMatchesEvents.length > 0)
KeepMatchedAdvanced(showOnlyMatches, changes) == ~showOnlyMatches \/ changes # <<>>

\* A matched row: counters, retained rows, end of iteration.  res is the row
\* as it goes on with its change records, nrep the replacements applied.
MatchedRow(file, keep, nrep, res, i, n, acc) ==
    EndOfRow(file, i, n,
             [acc EXCEPT
                !.fileMatches = @ + 1,
                !.st.totalMatches = @ + 1,
                !.fileReplacements = @ + nrep,
                !.st.totalReplacements = @ + nrep,
                !.out = IF keep THEN Append(@, res.row) ELSE @],
             res.changes)

\* Search-only mode: the row is not modified.
SearchOnly(row, fields) == [row |-> row, changes |-> Unmodified(row, fields)]

\* Variant: in search-only mode a row counts as a match only if one of its
\* cells matches.
MatchedSimpleByCells(file, body, res, i, n, acc) ==
    IF res.changes = <<>> /\ ~IsReplaceModeSimple(body)
    THEN UnmatchedRow(file, body.showOnlyMatches, res.row, i, n, acc)
    ELSE MatchedRow(file, KeepMatchedSimple(body.showOnlyMatches, res.changes),
                    IF IsReplaceModeSimple(body) THEN Len(res.changes) ELSE 0,
                    res, i, n, acc)

MatchedSimple(file, body, res, i, n, acc) ==
    MatchedRow(file, KeepMatchedSimple(body.showOnlyMatches, res.changes),
               IF IsReplaceModeSimple(body) THEN Len(res.changes) ELSE 0,
               res, i, n, acc)

\* One iteration of the simple-mode loop (route.ts 309-400).
RowStepSimple(file, body, headers, row, i, n, acc) ==
    LET CellHit(f) == RegExpTest(SearchRegex(body), row[f]) IN
    IF ~RowMatchesSimple(row, headers, body)
    THEN UnmatchedRow(file, body.showOnlyMatches, row, i, n, acc)
    ELSE MatchedSimple(file, body,
                       IF IsReplaceModeSimple(body)
                       THEN ApplyOps(row, headers,
                                     SingleTargetOps(ReplaceFields(body.selectedFields, headers),
                                                     body.replaceTerm), <<>>)
                       ELSE SearchOnly(row, SelectSeq(headers, CellHit)),
                       i, n, acc)

\* isReplaceMode && replaceTargetField && headers.includes(replaceTargetField)
ReplacingAdvanced(body, headers) ==
    IsReplaceModeAdvanced(body) /\ body.replaceTargetField \in Range(headers)

\* Variant: every matched row counts as one replacement.
MatchedAdvancedPerRow(file, body, headers, res, i, n, acc) ==
    MatchedRow(file, KeepMatchedAdvanced(body.showOnlyMatches, res.changes),
               IF ReplacingAdvanced(body, headers) THEN 1 ELSE 0,
               res, i, n, acc)

MatchedAdvanced(file, body, headers, res, i, n, acc) ==
    MatchedRow(file, KeepMatchedAdvanced(body.showOnlyMatches, res.changes),
               IF ReplacingAdvanced(body, headers) THEN Len(res.changes) ELSE 0,
               res, i, n, acc)

\* Variant: a replacement whose target field the file lacks throws.
AfterPredicateStrict(file, body, headers, row, r, i, n, acc) ==
    IF r.threw \/ (IsReplaceModeAdvanced(body) /\ ~ReplacingAdvanced(body, headers))
    THEN [acc EXCEPT !.threw = TRUE]
    ELSE IF ~r.matches
    THEN UnmatchedRow(file, body.showOnlyMatches, row, i, n, acc)
    ELSE MatchedAdvanced(file, body, headers,
                         ApplyOps(row, headers,
                                  <<[field |-> body.replaceTargetField,
                                     value |-> body.replaceValue]>>, <<>>),
                         i, n, acc)

\* The loop body of advanced mode after the predicate has returned r.
AfterPredicate(file, body, headers, row, r, i, n, acc) ==
    IF r.threw THEN [acc EXCEPT !.threw = TRUE]
    ELSE IF ~r.matches
    THEN UnmatchedRow(file, body.showOnlyMatches, row, i, n, acc)
    ELSE MatchedAdvanced(file, body, headers,
                         IF ReplacingAdvanced(body, headers)
                         THEN ApplyOps(row, headers,
                                       <<[field |-> body.replaceTargetField,
                                          value |-> body.replaceValue]>>, <<>>)
                         ELSE SearchOnly(row, r.matchedFields),
                         i, n, acc)

\* One iteration of the advanced-mode loop (route.ts 600-675).
RowStepAdvanced(file, body, headers, row, i, n, acc) ==
    AfterPredicate(file, body, headers, row,
                   RowMatchesAdvanced(row, headers, body.advanced), i, n, acc)

\* Variant: the 1-based rowIndex is used as an offset.
RowsToReplaceOneBased(rowIndices) == {rowIndices[j] : j \in 1..Len(rowIndices)}

\* new Set(searchResult.rows.map(r => r.rowIndex - 1)), as 0-based offsets.
RowsToReplace(rowIndices) == {rowIndices[j] - 1 : j \in 1..Len(rowIndices)}

\* The replay loop after the operations have been applied to the row.
Replayed(file, res, i, n, acc) ==
    EndOfRow(file, i, n,
             [acc EXCEPT
                !.fileReplacements = @ + Len(res.changes),
                !.st.totalReplacements = @ + Len(res.changes),
                !.out = Append(@, res.row)],
             res.changes)

\* One iteration of the replay loop (part_000 340-397).
RowStepReplay(file, body, headers, row, i, n, acc) ==
    Replayed(file,
             IF (i - 1) \in RowsToReplace(file.rows)
             THEN ApplyOps(row, headers, body.operations, <<>>)
             ELSE [row |-> row, changes |-> <<>>],
             i, n, acc)

RowStep(file, body, headers, row, i, n, acc) ==
    CASE body.route = "simple"   -> RowStepSimple(file, body, headers, row, i, n, acc)
      [] body.route = "advanced" -> RowStepAdvanced(file, body, headers, row, i, n, acc)
      [] body.route = "replace"  -> RowStepReplay(file, body, headers, row, i, n, acc)

\* for (let i = 0; i < rows.length; i++) { ... }; a throw ends the loop.
RECURSIVE ScanRows(_, _, _, _, _, _)
ScanRows(file, body, headers, rows, i, acc) ==
    IF acc.threw THEN acc
    ELSE IF i > Len(rows) THEN [acc EXCEPT !.scanned = TRUE]
    ELSE ScanRows(file, body, headers, rows, i + 1,
                  RowStep(file, body, headers, rows[i], i, Len(rows), acc))

----------------------------------------------------------------------------
(* Artifact storage (part_001) *)

\* A file name below TMP_DIR, or a download locator: what stands before the
\* timestamp, the timestamp, what follows it.
\* newPath of a file that produced no artifact (null).
NoPath == [prefix |-> "", ts |-> -1, name |-> <<>>]

\* fileName.replace(/\.csv$/i, '') + '_replaced.csv' of the last path segment.
ReplacedFileName(path) == <<path.stem, "_replaced.csv">>

\* saveProcessedFile: TMP_DIR/<Date.now()>_<safe name>
SavedPath(ts, name) == [prefix |-> "", ts |-> ts, name |-> name]

\* createZipFile: TMP_DIR/processed_<Date.now()>.zip
ZipPath(ts) == [prefix |-> "", ts |-> ts, name |-> <<"processed", ".zip">>]

\* getDownloadUrl: `/api/download?file=${encodeURIComponent(relativePath)}`
\* of the path relative to TMP_DIR.
GetDownloadUrl(path) == [path EXCEPT !.prefix = "/api/download?file="]

\* path.basename(f.newPath): what follows the last "/" of the locator.
Basename(url) ==
    [url EXCEPT !.prefix = IF @ = "/api/download?file=" THEN "download?file=" ELSE @]

\* filesWithOutput.map(f => ({ filename: path.basename(f.newPath),
\*   filePath: path.join(cwd, 'tmp', path.basename(f.newPath)) }))
FilesToZip(outs) ==
    [i \in 1..Len(outs) |->
        [filename |-> Basename(outs[i].newPath), filePath |-> Basename(outs[i].newPath)]]

\* The archive createZipFile writes when it resolves: archive.file(filePath,
\* { name: filename }) of every file that is there to be read.
Archive(store, files) ==
    LET Exists(f) == f.filePath \in DOMAIN store
        found     == SelectSeq(files, Exists)
    IN  [entries |-> [i \in 1..Len(found) |->
                        [name |-> found[i].filename, content |-> store[found[i].filePath]]]]

\* fs.writeFile: a file of the same name is overwritten.
WriteFile(store, path, content) ==
    [p \in DOMAIN store \cup {path} |-> IF p = path THEN content ELSE store[p]]

\* outputFiles.filter(f => f.newPath)
FilesWithOutput(outs) == LET HasPath(f) == f.newPath # NoPath IN SelectSeq(outs, HasPath)

----------------------------------------------------------------------------
(* Requests *)

\* Lists of up to MaxFiles different files, in the order of the catalogue.
FileLists ==
    LET picks == {sq \in UNION {[1..n -> DOMAIN Catalogue] : n \in 0..MaxFiles} :
                     \A i, j \in 1..Len(sq) : i < j => sq[i] < sq[j]}
    IN  {[i \in 1..Len(sq) |-> Catalogue[sq[i]]] : sq \in picks} \cup {<<D2, D1>>}

NoAdvanced == [conditions |-> <<>>, logic |-> "AND", caseSensitive |-> FALSE]

Cond(f, v, m) == [field |-> f, value |-> v, mode |-> m]

Pattern(t, re, cs, ww) ==
    [searchTerm |-> t, useRegex |-> re, caseSensitive |-> cs, wholeWord |-> ww]

\* Search terms with their options: none, a literal with and without case
\* and word boundaries, a literal that spans two cells, a wildcard, and an
\* unterminated group read as a literal and as a regular expression.
SearchPatterns ==
    { Pattern(<<>>, FALSE, FALSE, FALSE),
      Pattern(<<"a">>, FALSE, FALSE, FALSE),
      Pattern(<<"a">>, FALSE, TRUE, TRUE),
      Pattern(<<"a", " ", "b">>, FALSE, FALSE, FALSE),
      Pattern(<<".", "b">>, TRUE, TRUE, FALSE),
      Pattern(<<"(">>, FALSE, FALSE, FALSE),
      Pattern(<<"(">>, TRUE, FALSE, TRUE) }

ReplaceValues == { Undefined, <<>>, <<"b">> }

Advanced(cl, lg, cs) == [conditions |-> cl, logic |-> lg, caseSensitive |-> cs]

AdvancedConfigs ==
    { Advanced(<< Cond("h1", <<"a">>, "contains") >>, "AND", FALSE),
      Advanced(<< Cond("h1", <<"a">>, "equals"), Cond("h2", <<"b">>, "endsWith") >>,
               "AND", TRUE),
      Advanced(<< Cond("h1", <<"a">>, "equals"), Cond("h2", <<"b">>, "endsWith") >>,
               "OR", FALSE),
      Advanced(<< Cond("h3", <<"a">>, "startsWith"), Cond("h2", <<".">>, "regex") >>,
               "AND", FALSE),
      Advanced(<< Cond("h3", <<"a">>, "startsWith"), Cond("h2", <<"b">>, "regex") >>,
               "OR", TRUE),
      Advanced(<< Cond("h1", <<" ">>, "contains") >>, "AND", FALSE),
      Advanced(<< Cond("h3", <<"(">>, "regex") >>, "OR", FALSE),
      Advanced(<< Cond("h3", <<"a">>, "startsWith"), Cond("h2", <<"(">>, "regex") >>,
               "AND", FALSE),
      Advanced(<< Cond("h1", <<"a">>, "contains"), Cond("h1", <<"a">>, "equals") >>,
               "AND", FALSE) }

\* Bodies of the search handler that leave the advanced configuration out.
SimpleBodies ==
    { [files |-> fl, searchTerm |-> pt.searchTerm, replaceTerm |-> r,
       selectedFields |-> sf, showOnlyMatches |-> som,
       caseSensitive |-> pt.caseSensitive, wholeWord |-> pt.wholeWord,
       useRegex |-> pt.useRegex, advanced |-> NoAdvanced,
       replaceTargetField |-> "", replaceValue |-> Undefined] :
      fl \in FileLists, pt \in SearchPatterns, r \in ReplaceValues,
      sf \in { <<>>, <<"h2", "h9">> }, som \in BOOLEAN }

\* Bodies of the search handler that carry an advanced configuration.
AdvancedBodies ==
    { [files |-> fl, searchTerm |-> <<>>, replaceTerm |-> Undefined,
       selectedFields |-> <<>>, showOnlyMatches |-> som, caseSensitive |-> FALSE,
       wholeWord |-> FALSE, useRegex |-> FALSE, advanced |-> adv,
       replaceTargetField |-> tf, replaceValue |-> rv] :
      fl \in FileLists, adv \in AdvancedConfigs, som \in BOOLEAN,
      tf \in {"", "h1"}, rv \in ReplaceValues }

SearchBodies == SimpleBodies \cup AdvancedBodies

\* A SearchResult; rows holds the rowIndex of each SearchResultRow.
Result(d, rowIndices) == [filename |-> d.name, path |-> d.path, rows |-> rowIndices]

SearchResults ==
    { Result(D1, <<1, 3>>), Result(D1, <<0, 4>>), Result(D1, <<>>),
      Result(D2, <<1, 3>>), Result(D2, <<2>>), Result(D3, <<1>>) }

ResultLists == UNION {[1..n -> SearchResults] : n \in 0..MaxFiles}

Op(f, v) == [field |-> f, value |-> v]

Target(ops, tf, rv) ==
    [replaceOperations |-> ops, replaceTargetField |-> tf, replaceValue |-> rv]

\* What to replace: nothing, the single-field form with and without its
\* value, operation lists (one naming a field twice), and operations lacking
\* a field or a value.
ReplaceTargets ==
    { Target(<<>>, "", Undefined),
      Target(<<>>, "h2", Undefined),
      Target(<<>>, "h2", <<"a">>),
      Target(<< Op("h1", <<"b">>) >>, "", Undefined),
      Target(<< Op("h2", <<"b">>), Op("h1", <<>>) >>, "h2", <<"a">>),
      Target(<< Op("h2", <<"a">>), Op("h4", <<"a">>) >>, "", Undefined),
      Target(<< Op("h2", <<"b">>), Op("h2", <<"a">>) >>, "", Undefined),
      Target(<< Op("", <<"a">>) >>, "", Undefined),
      Target(<< Op("h1", Undefined) >>, "", Undefined) }

SelectedFileLists == { <<>>, <<D1, D2, D3>>, <<D2, D1, D3>> }

ReplaceBodies ==
    { [searchResults |-> rl, selectedFiles |-> sel,
       replaceOperations |-> tg.replaceOperations,
       replaceTargetField |-> tg.replaceTargetField,
       replaceValue |-> tg.replaceValue] :
      rl \in ResultLists, sel \in SelectedFileLists, tg \in ReplaceTargets }

----------------------------------------------------------------------------
(* Request validation *)

\* Variant: the search term is not checked.
SearchValidationNoTerm(body) ==
    IF body.files = <<>> THEN "no-files"
    ELSE IF body.advanced.conditions # <<>> THEN "advanced"
    ELSE "simple"

\* route.ts 165-209: the outcome of the checks made before the file loop.
SearchValidation(body) ==
    IF body.files = <<>> THEN "no-files"
    ELSE IF body.advanced.conditions # <<>> THEN "advanced"
    ELSE IF body.searchTerm = <<>> THEN "no-term"
    ELSE "simple"

\* part_000 157-178: the operation list of a replay request.
OperationsOf(body) ==
    IF body.replaceOperations # <<>> THEN body.replaceOperations
    ELSE IF body.replaceTargetField # "" /\ body.replaceValue # Undefined
    THEN << Op(body.replaceTargetField, body.replaceValue) >>
    ELSE <<>>

\* Variant: the first entry of a path is kept.
FilesMapFirst(results) ==
    LET WithRows(r) == r.rows # <<>>
        rs    == SelectSeq(results, WithRows)
        paths == Dedup([i \in 1..Len(rs) |-> rs[i].path])
        First(pth) == CHOOSE i \in 1..Len(rs) :
                         /\ rs[i].path = pth
                         /\ \A j \in 1..(i - 1) : rs[j].path # pth
    IN  [i \in 1..Len(paths) |->
            [name |-> rs[First(paths[i])].filename, path |-> paths[i],
             rows |-> rs[First(paths[i])].rows]]

\* part_000 200-206: filesMap, a Map keyed by path; a later result of the
\* same path replaces the value and keeps the position of the first.
FilesMap(results) ==
    LET WithRows(r) == r.rows # <<>>
        rs    == SelectSeq(results, WithRows)
        paths == Dedup([i \in 1..Len(rs) |-> rs[i].path])
        Last(pth) == CHOOSE i \in 1..Len(rs) :
                        /\ rs[i].path = pth
                        /\ \A j \in (i + 1)..Len(rs) : rs[j].path # pth
    IN  [i \in 1..Len(paths) |->
            [name |-> rs[Last(paths[i])].filename, path |-> paths[i],
             rows |-> rs[Last(paths[i])].rows]]

\* part_000 181-196: the first operation that fails validation decides.
BadOperation(ops) ==
    IF \E i \in 1..Len(ops) :
          /\ \A j \in 1..(i - 1) : ops[j].field # "" /\ ops[j].value # Undefined
          /\ ops[i].field = ""
    THEN "op-no-field"
    ELSE IF \E i \in 1..Len(ops) : ops[i].value = Undefined
    THEN "op-no-value"
    ELSE "none"

\* part_000 150-212: the outcome of the checks made before the file loop.
ReplaceValidation(body) ==
    IF body.searchResults = <<>> THEN "no-results"
    ELSE IF body.replaceOperations = <<>> /\ body.replaceTargetField # ""
            /\ body.replaceValue = Undefined THEN "no-value"
    ELSE IF body.replaceOperations = <<>> /\ body.replaceTargetField = ""
    THEN "no-target"
    ELSE IF BadOperation(OperationsOf(body)) # "none"
    THEN BadOperation(OperationsOf(body))
    ELSE IF FilesMap(body.searchResults) = <<>> THEN "no-rows"
    ELSE "replace"

\* part_000 247-283: the locator the bytes are read from; without an original
\* file with a url it is tmp/<basename of the path>.
ResolveSource(file, selectedFiles) ==
    LET Same(f) == f.name = file.name \/ f.path = file.path
        found   == SelectSeq(selectedFiles, Same)
    IN  IF found # <<>> /\ found[1].url # "" THEN found[1].url ELSE file.path.stem

----------------------------------------------------------------------------
(* Download handler (download/route.ts).  Paths are strings of characters,  *)
(* POSIX rules.                                                            *)

\* The characters a `file` parameter is made of.
PathChars == {".", "/", "\\", "t"}

\* path.join(process.cwd(), 'tmp') with the working directory /w.
TMP_DIR == <<"/", "w", "/", "t">>

\* What the disk holds: the tmp directory with one artifact, a file next to
\* the tmp directory whose name starts like it, and a file in the root.
Disk ==
    (<<"/">> :> "dir") @@ (<<"/", "w">> :> "dir") @@ (TMP_DIR :> "dir")
    @@ (<<"/", "w", "/", "t", "/", "t">> :> "file")
    @@ (<<"/", "w", "/", "t", "t">> :> "file")
    @@ (<<"/", "t">> :> "file")

\* c put in front of the first of the segments.
PrependChar(c, segs) == << <<c>> \o segs[1] >> \o Tail(segs)

\* The segments of a path between its separators, empty ones included.
RECURSIVE SplitPath(_)
SplitPath(s) ==
    IF s = <<>> THEN << <<>> >>
    ELSE IF Head(s) = "/" THEN << <<>> >> \o SplitPath(Tail(s))
    ELSE PrependChar(Head(s), SplitPath(Tail(s)))

\* normalizeString of path.posix: empty and "." segments go, ".." takes the
\* segment before it away, or stays when there is none and the path is
\* relative.
RECURSIVE NormalizeSegments(_, _, _)
NormalizeSegments(segs, allowAboveRoot, acc) ==
    IF segs = <<>> THEN acc
    ELSE IF Head(segs) \in {<<>>, <<".">>}
    THEN NormalizeSegments(Tail(segs), allowAboveRoot, acc)
    ELSE IF Head(segs) # <<".", ".">>
    THEN NormalizeSegments(Tail(segs), allowAboveRoot, Append(acc, Head(segs)))
    ELSE IF acc # <<>> /\ acc[Len(acc)] # <<".", ".">>
    THEN NormalizeSegments(Tail(segs), allowAboveRoot, SubSeq(acc, 1, Len(acc) - 1))
    ELSE IF allowAboveRoot
    THEN NormalizeSegments(Tail(segs), allowAboveRoot, Append(acc, <<".", ".">>))
    ELSE NormalizeSegments(Tail(segs), allowAboveRoot, acc)

RECURSIVE JoinSlash(_)
JoinSlash(segs) ==
    IF segs = <<>> THEN <<>>
    ELSE IF Len(segs) = 1 THEN segs[1]
    ELSE segs[1] \o <<"/">> \o JoinSlash(Tail(segs))

\* The end of path.posix.normalize: "." for an empty relative result, the
\* trailing separator kept, the leading one put back.
Normalized(body, isAbsolute, trailingSeparator) ==
    IF body = <<>>
    THEN IF isAbsolute THEN <<"/">>
         ELSE IF trailingSeparator THEN <<".", "/">> ELSE <<".">>
    ELSE (IF isAbsolute THEN <<"/">> ELSE <<>>) \o body
         \o (IF trailingSeparator THEN <<"/">> ELSE <<>>)

\* path.normalize(p)
Normalize(p) ==
    IF p = <<>> THEN <<".">>
    ELSE Normalized(JoinSlash(NormalizeSegments(SplitPath(p), p[1] # "/", <<>>)),
                    p[1] = "/", p[Len(p)] = "/")

\* s.replace(/^(\.\.(\/|\\|$))+/, '')
RECURSIVE StripTraversal(_)
StripTraversal(s) ==
    IF Len(s) >= 2 /\ s[1] = "." /\ s[2] = "."
    THEN IF Len(s) = 2 THEN <<>>
         ELSE IF s[3] \in {"/", "\\"} THEN StripTraversal(SubSeq(s, 4, Len(s)))
         ELSE s
    ELSE s

\* Variant: the parameter is used as it was normalized.
SafePathUnstripped(fileParam) == Normalize(fileParam)

\* path.normalize(fileParam).replace(/^(\.\.(\/|\\|$))+/, '')
SafePath(fileParam) == StripTraversal(Normalize(fileParam))

\* path.join(base, rel): empty arguments are left out.
PathJoin(base, rel) ==
    IF rel = <<>> THEN Normalize(base) ELSE Normalize(base \o <<"/">> \o rel)

\* What is on the disk under a path: "file", "dir" or "none".  A path with a
\* trailing separator names a directory only.
OnDisk(p) ==
    IF p \in DOMAIN Disk THEN Disk[p]
    ELSE IF Len(p) > 1 /\ p[Len(p)] = "/" /\ SubSeq(p, 1, Len(p) - 1) \in DOMAIN Disk
            /\ Disk[SubSeq(p, 1, Len(p) - 1)] = "dir"
    THEN "dir"
    ELSE "none"

NoDownload == [param |-> <<"none">>, status |-> 0, touched |-> {}, read |-> {}]

\* The answer for a parameter whose path is filePath: 400 when the prefix
\* test fails, 404 when fs.access fails, 500 when fs.readFile fails on a
\* directory, else the content.
Served(param, filePath) ==
    IF ~StartsWith(filePath, TMP_DIR)
    THEN [param |-> param, status |-> 400, touched |-> {}, read |-> {}]
    ELSE IF OnDisk(filePath) = "none"
    THEN [param |-> param, status |-> 404, touched |-> {filePath}, read |-> {}]
    ELSE IF OnDisk(filePath) = "dir"
    THEN [param |-> param, status |-> 500, touched |-> {filePath}, read |-> {}]
    ELSE [param |-> param, status |-> 200, touched |-> {filePath}, read |-> {filePath}]

\* GET: the answer and the paths handed to fs.access and fs.readFile.
Respond(param) ==
    IF param = Undefined \/ param = <<>>
    THEN [param |-> param, status |-> 400, touched |-> {}, read |-> {}]
    ELSE Served(param, PathJoin(TMP_DIR, SafePath(param)))

\* The `file` parameters of the requests: none, or a string.
FileParams ==
    {Undefined} \cup UNION {[1..n -> PathChars] : n \in 0..MaxParam}

----------------------------------------------------------------------------
(* State *)

VARIABLES
    pc,           \* position of the handler: idle, file, acquire, persist,
                  \* zip, done
    req,          \* the accepted request: route, files, parameters
    k,            \* 1-based position of the current file in req.files
    events,       \* what sendEvent has enqueued on the progress channel
    stats,        \* the ProcessStats object
    outputFiles,  \* the outputFiles array
    closeCalls,   \* number of calls of controller.close()
    received,     \* the request as it arrived: handler, body
    acquired,     \* per started file: the locator read and what the read gave
    parsed,       \* parse result of the file parsed last, k its position
    scan,         \* result of the row scan of the file scanned last
    storage,      \* the tmp directory: path -> content
    now,          \* Date.now()
    peer,         \* the reading side of the progress channel: open, closed
    download      \* the download handler: its parameter and its answer

vars == <<pc, req, k, events, stats, outputFiles, closeCalls, received, acquired,
          parsed, scan, storage, now, peer, download>>

NoRequest == [route |-> "none", files |-> <<>>]

NoText == [fields |-> <<>>, data |-> <<>>]

NoParse == [k |-> 0, fields |-> <<>>, data |-> <<>>]

NoBody == [handler |-> "none", wellFormed |-> FALSE]

Received(handler, body) == [handler |-> handler, wellFormed |-> TRUE, body |-> body]

Init ==
    /\ pc = "idle"
    /\ req = NoRequest
    /\ k = 0
    /\ events = <<>>
    /\ stats = InitStats(0)
    /\ outputFiles = <<>>
    /\ closeCalls = 0
    /\ received = NoBody
    /\ acquired = <<>>
    /\ parsed = NoParse
    /\ scan = InitScan(InitStats(0))
    /\ storage = <<>>
    /\ now = 0
    /\ peer = "open"
    /\ download = NoDownload

\* controller.close()
Close(n) == n + 1

\* Variant: enqueueing on a cancelled stream is a no-op.
EnqueueNeverThrows(p) == FALSE

\* controller.enqueue(..) in sendEvent throws once the stream has been
\* cancelled by its reader.
EnqueueThrows(p) == p = "closed"

RequestError(msg) == Event("error", "", [message |-> msg])

\* An early exit of start(): the events sent, the close() calls made on the
\* way out (the finally block closes once more), no file touched.
Reject(evs, closes) ==
    /\ pc' = "done"
    /\ req' = NoRequest
    /\ events' = evs
    /\ closeCalls' = closes
    /\ UNCHANGED <<k, stats, outputFiles, acquired, parsed, scan, storage, now>>

\* The file loop is entered.
Accept(request) ==
    /\ pc' = "file"
    /\ req' = request
    /\ k' = 1
    /\ stats' = InitStats(Len(request.files))
    /\ UNCHANGED <<events, outputFiles, closeCalls, acquired, parsed, scan, storage, now>>

\* sendEvent('error', ..); controller.close(); return; then finally: close().
RejectClosed(msg) ==
    Reject(<<RequestError(msg)>>, Close(Close(closeCalls)))

\* sendEvent('error', ..); return; then finally: close().
RejectOpen(msg) ==
    Reject(<<RequestError(msg)>>, Close(closeCalls))

\* The search handler up to its first await inside the file loop.
SearchPOST ==
    /\ pc = "idle"
    /\ ~EnqueueThrows(peer)
    /\ UNCHANGED <<peer, download>>
    /\ \E body \in SearchBodies :
         /\ received' = Received("search", body)
         /\ CASE SearchValidation(body) = "no-files" ->
                   RejectClosed("Files are required")
              [] SearchValidation(body) = "no-term" ->
                   RejectOpen("Search term is required in simple mode")
              [] OTHER ->
                   Accept([route |-> SearchValidation(body)] @@ body)

\* The replay handler up to its first await inside the file loop.
ReplacePOST ==
    /\ pc = "idle"
    /\ ~EnqueueThrows(peer)
    /\ UNCHANGED <<peer, download>>
    /\ \E body \in ReplaceBodies :
         /\ received' = Received("replace", body)
         /\ IF ReplaceValidation(body) # "replace"
            THEN RejectClosed(ReplaceValidation(body))
            ELSE Accept([route |-> "replace",
                         files |-> FilesMap(body.searchResults),
                         operations |-> OperationsOf(body),
                         selectedFiles |-> body.selectedFiles])

\* await request.json() rejects: the outer catch reports it, finally closes.
MalformedPOST ==
    /\ pc = "idle"
    /\ ~EnqueueThrows(peer)
    /\ UNCHANGED <<peer, download>>
    /\ \E handler \in {"search", "replace"} :
         /\ received' = [NoBody EXCEPT !.handler = handler]
         /\ Reject(<<Event("error", "", [error |-> "body"])>>, Close(closeCalls))

----------------------------------------------------------------------------
(* The file loop *)

File == req.files[k]

FileStart(file) == Event("file-start", file.name, [path |-> file.path])

FileInfo(file, n, nfields) ==
    Event("file-info", file.name, [totalRows |-> n, fields |-> nfields])

FileError(file, kind, fields) ==
    Event("error", file.name, [error |-> kind, fields |-> fields])

\* The locators behind which the environment holds a file.
Stored == {"L1", "L2", "L3"}

\* How the per-file try block goes on after a completed row scan: "catch"
\* (the scan threw), "persist" (an artifact is to be saved) or "complete".
AfterScan(request, acc) ==
    IF acc.threw THEN "catch"
    ELSE IF \/ request.route = "simple" /\ IsReplaceModeSimple(request)
            \/ request.route = "advanced" /\ IsReplaceModeAdvanced(request)
            \/ request.route = "replace" /\ acc.fileReplacements > 0
    THEN "persist"
    ELSE "complete"

Scanned(request, info, acc) ==
    [next |-> AfterScan(request, acc), ev |-> <<info>> \o acc.ev, st |-> acc.st,
     scan |-> acc]

\* The file is given up before its first row: by a throw ("catch") or by an
\* error event and continue.
GivenUp(next, ev, st) == [next |-> next, ev |-> ev, st |-> st, scan |-> InitScan(st)]

\* Variant: the header check is left out.
InvalidFieldsNone(operations, headers) == <<>>

\* operations.map(op => op.field).filter(field => !headers.includes(field))
InvalidFields(operations, headers) ==
    LET Missing(f) == f \notin Range(headers)
    IN  SelectSeq(CondFields(operations), Missing)

\* The body of the per-file try block from the parse result on (route.ts
\* 262-402, 583-677; part_000 302-397), stats.totalRows already counting the
\* file: the events sent, the statistics, the scan, and how the block goes on.
ProcessRows(request, file, headers, rows, st) ==
    IF request.route = "simple" /\ SearchRegexThrows(request)
    THEN GivenUp("catch", <<>>, st)
    ELSE IF request.route = "replace"
            /\ InvalidFields(request.operations, headers) # <<>>
    THEN GivenUp("continue",
                 <<FileError(file, "fields-not-found",
                             InvalidFields(request.operations, headers))>>, st)
    ELSE Scanned(request,
                 FileInfo(file, Len(rows),
                          IF request.route = "replace" THEN Len(request.operations)
                          ELSE Len(headers)),
                 ScanRows(file, request, headers, rows, 1, InitScan(st)))

ProcessParsed(request, file, p, st) ==
    ProcessRows(request, file, HeadersOf(p), p.data,
                [st EXCEPT !.totalRows = @ + Len(p.data)])

\* outputFiles.push, processedFiles++, file-complete and the stats snapshot
\* (route.ts 423-439, 694-705; part_000 420-441).  The replay handler counts
\* the file only after a successful save.
FileComplete(route, file, acc, newPath) ==
    Event("file-complete", file.name,
          [matchesCount |-> IF route = "replace" THEN acc.fileReplacements
                            ELSE acc.fileMatches,
           replacementsCount |-> acc.fileReplacements,
           newPath |-> newPath])

\* Variant: the replay handler counts every completed file.
CountFileAlways(route, st, newPath) ==
    [st EXCEPT !.processedFiles = @ + 1, !.currentFile = ""]

\* stats.processedFiles++ (unless the replay handler saved nothing) and
\* stats.currentFile = undefined
CountFile(route, st, newPath) ==
    [st EXCEPT !.processedFiles = IF route # "replace" \/ newPath # NoPath
                                  THEN @ + 1 ELSE @,
               !.currentFile = ""]

CompleteFile(file, evs, st, acc, newPath) ==
    /\ outputFiles' = Append(outputFiles, [originalPath |-> file.path, newPath |-> newPath])
    /\ stats' = CountFile(req.route, st, newPath)
    /\ events' = events \o evs \o <<FileComplete(req.route, file, acc, newPath),
                                    StatsEvent(CountFile(req.route, st, newPath))>>
    /\ k' = k + 1
    /\ pc' = "file"

\* Variant: after an error the loop takes the same file again.
NextFileAgain(evs, st) ==
    /\ events' = events \o evs
    /\ stats' = st
    /\ k' = k
    /\ pc' = "file"
    /\ UNCHANGED outputFiles

\* Variant: an error of one file ends the loop (no per-file fault isolation).
NextFileAbort(evs, st) ==
    /\ events' = events \o evs
    /\ stats' = st
    /\ k' = k
    /\ pc' = "done"
    /\ UNCHANGED outputFiles

\* The per-file catch block (route.ts 440-446, 706-711; part_000 442-448),
\* and the "continue" after an error event: the loop goes to the next file.
NextFile(evs, st) ==
    /\ events' = events \o evs
    /\ stats' = st
    /\ k' = k + 1
    /\ pc' = "file"
    /\ UNCHANGED outputFiles

\* Variant: the catch block swallows the error.
CaughtSilently(file) == <<>>

Caught(file) == <<FileError(file, "thrown", <<>>)>>

\* An entry of the acquisition log.
Read(locator, outcome) == [locator |-> locator, outcome |-> outcome]

\* The outcome of the read awaited is known.
Settle(log, outcome) == [log EXCEPT ![Len(log)].outcome = outcome]

\* The locator of the read awaited.
Awaited == acquired[Len(acquired)].locator

\* Top of the loop body up to the await of the read.
StartFile ==
    /\ pc = "file"
    /\ ~EnqueueThrows(peer)
    /\ UNCHANGED <<peer, download>>
    /\ k <= Len(req.files)
    /\ LET st1 == [stats EXCEPT !.currentFile = File.name] IN
       IF req.route # "replace" /\ File.url = ""
       THEN \* throw new Error('File must have a url')
            /\ NextFile(<<FileStart(File)>> \o Caught(File), st1)
            /\ acquired' = Append(acquired, Read("", "threw"))
       ELSE /\ events' = Append(events, FileStart(File))
            /\ stats' = st1
            /\ acquired' = Append(acquired,
                                  Read(IF req.route = "replace"
                                       THEN ResolveSource(File, req.selectedFiles)
                                       ELSE File.url, "pending"))
            /\ pc' = "acquire"
            /\ UNCHANGED <<k, outputFiles>>
    /\ UNCHANGED <<req, closeCalls, received, parsed, scan, storage, now>>

\* The read or the download rejects.
AcquireThrows ==
    /\ pc = "acquire"
    /\ ~EnqueueThrows(peer)
    /\ UNCHANGED <<peer, download>>
    /\ acquired' = Settle(acquired, "threw")
    /\ NextFile(Caught(File), stats)
    /\ UNCHANGED <<req, closeCalls, received, parsed, scan, storage, now>>

\* The try block goes on as its result r says.
GoOn(r) ==
    /\ scan' = r.scan
    /\ CASE r.next = "catch"    -> NextFile(r.ev \o Caught(File), r.st)
         [] r.next = "continue" -> NextFile(r.ev, r.st)
         [] r.next = "complete" -> CompleteFile(File, r.ev, r.st, r.scan, NoPath)
         [] r.next = "persist"  ->
              /\ events' = events \o r.ev
              /\ stats' = r.st
              /\ pc' = "persist"
              /\ UNCHANGED <<k, outputFiles>>

\* The read returns a text: parse, scan, up to the next await.
AcquireReturns ==
    /\ pc = "acquire"
    /\ ~EnqueueThrows(peer)
    /\ UNCHANGED <<peer, download>>
    /\ Awaited \in Stored
    /\ \E wellFormed \in BOOLEAN :
         IF ~wellFormed
         THEN \* parseResult.errors.length > 0
              /\ acquired' = Settle(acquired, "malformed")
              /\ NextFile(<<FileError(File, "parse", <<>>)>>, stats)
              /\ UNCHANGED <<parsed, scan>>
         ELSE /\ acquired' = Settle(acquired, "ok")
              /\ parsed' = [k |-> k] @@ Parsed(Awaited)
              /\ GoOn(ProcessParsed(req, File, Parsed(Awaited), stats))
    /\ UNCHANGED <<req, closeCalls, received, storage, now>>

----------------------------------------------------------------------------
(* Persisting, bundling, completing *)

\* Papa.unparse(processedRows, { header: true }): the columns are the keys of
\* the first row; no row, no text.
Unparse(fields, rows) ==
    IF rows = <<>> THEN NoText ELSE [fields |-> fields, data |-> rows]

\* Date.now() of a later call: the clock has not moved, or has moved on.
Clock == {t \in {now, now + 1} : t <= MaxClock}

\* saveProcessedFile resolves: the artifact is written, the file completes.
PersistReturns ==
    /\ pc = "persist"
    /\ ~EnqueueThrows(peer)
    /\ UNCHANGED <<peer, download>>
    /\ \E ts \in Clock :
         LET path == SavedPath(ts, ReplacedFileName(File.path)) IN
         /\ now' = ts
         /\ storage' = WriteFile(storage, path, Unparse(parsed.fields, scan.out))
         /\ CompleteFile(File, <<>>, stats, scan, GetDownloadUrl(path))
    /\ UNCHANGED <<req, closeCalls, received, acquired, parsed, scan>>

\* saveProcessedFile rejects: the per-file catch block.
PersistThrows ==
    /\ pc = "persist"
    /\ ~EnqueueThrows(peer)
    /\ UNCHANGED <<peer, download>>
    /\ NextFile(Caught(File), stats)
    /\ UNCHANGED <<req, closeCalls, received, acquired, parsed, scan, storage, now>>

\* The statistics carried by `complete` (route.ts 481-487, 747-754; part_000
\* 483-490): the simple pipeline leaves processedRows out.
CompleteStats(route, st) ==
    IF route = "simple"
    THEN [totalFiles |-> st.totalFiles, processedFiles |-> st.processedFiles,
          totalRows |-> st.totalRows, totalMatches |-> st.totalMatches,
          totalReplacements |-> st.totalReplacements]
    ELSE [totalFiles |-> st.totalFiles, processedFiles |-> st.processedFiles,
          totalRows |-> st.totalRows, processedRows |-> st.processedRows,
          totalMatches |-> st.totalMatches,
          totalReplacements |-> st.totalReplacements]

\* Variant: a last stats snapshot is sent after `complete`.
CompleteThenStats(downloadUrl, isZip) ==
    /\ events' = events \o
                   << Event("complete", "",
                            [outputFiles |-> IF req.route = "replace" THEN <<>>
                                             ELSE outputFiles,
                             downloadUrl |-> downloadUrl, isZip |-> isZip,
                             stats |-> CompleteStats(req.route, stats)]),
                      StatsEvent(stats) >>
    /\ closeCalls' = Close(closeCalls)
    /\ pc' = "done"

\* sendEvent('complete', ..), then the finally block closes the channel.  The
\* replay handler does not send outputFiles.
Complete(downloadUrl, isZip) ==
    /\ events' = Append(events,
                        Event("complete", "",
                              [outputFiles |-> IF req.route = "replace" THEN <<>>
                                               ELSE outputFiles,
                               downloadUrl |-> downloadUrl, isZip |-> isZip,
                               stats |-> CompleteStats(req.route, stats)]))
    /\ closeCalls' = Close(closeCalls)
    /\ pc' = "done"

\* After the loop: one artifact is its own download, several are zipped.
Finish ==
    /\ pc = "file"
    /\ ~EnqueueThrows(peer)
    /\ UNCHANGED <<peer, download>>
    /\ k > Len(req.files)
    /\ LET outs == FilesWithOutput(outputFiles) IN
       IF Len(outs) > 1
       THEN /\ pc' = "zip"
            /\ UNCHANGED <<events, closeCalls>>
       ELSE Complete(IF Len(outs) = 1 THEN outs[1].newPath ELSE NoPath, FALSE)
    /\ UNCHANGED <<req, k, stats, outputFiles, received, acquired, parsed, scan, storage, now>>

\* createZipFile resolves.  A file that is not there is left out of the
\* archive, or makes createZipFile reject (ZipThrows).
ZipReturns ==
    /\ pc = "zip"
    /\ ~EnqueueThrows(peer)
    /\ UNCHANGED <<peer, download>>
    /\ \E ts \in Clock :
         /\ now' = ts
         /\ storage' = WriteFile(storage, ZipPath(ts),
                                 Archive(storage, FilesToZip(FilesWithOutput(outputFiles))))
         /\ Complete(GetDownloadUrl(ZipPath(ts)), TRUE)
    /\ UNCHANGED <<req, k, stats, outputFiles, received, acquired, parsed, scan>>

\* Variant: a failed archive is reported on the channel.
ZipThrowsReported ==
    /\ pc = "zip"
    /\ ~EnqueueThrows(peer)
    /\ UNCHANGED <<peer, download>>
    /\ events' = events \o
                   << Event("error", "", [error |-> "zip"]),
                      Event("complete", "",
                            [outputFiles |-> IF req.route = "replace" THEN <<>>
                                             ELSE outputFiles,
                             downloadUrl |-> NoPath, isZip |-> FALSE,
                             stats |-> CompleteStats(req.route, stats)]) >>
    /\ closeCalls' = Close(closeCalls)
    /\ pc' = "done"
    /\ UNCHANGED <<req, k, stats, outputFiles, received, acquired, parsed, scan, storage, now>>

\* createZipFile rejects: logged, no download.
ZipThrows ==
    /\ pc = "zip"
    /\ ~EnqueueThrows(peer)
    /\ UNCHANGED <<peer, download>>
    /\ Complete(NoPath, FALSE)
    /\ UNCHANGED <<req, k, stats, outputFiles, received, acquired, parsed, scan, storage, now>>

Next ==
    \/ SearchPOST
    \/ ReplacePOST
    \/ MalformedPOST
    \/ StartFile
    \/ AcquireThrows
    \/ AcquireReturns
    \/ PersistReturns
    \/ PersistThrows
    \/ Finish
    \/ ZipReturns
    \/ ZipThrows

Spec == Init /\ [][Next]_vars

\* Every collaborator call returns or throws, and the handler runs on.
FairSpec == Spec /\ WF_vars(Next)

----------------------------------------------------------------------------
(* The reader goes away *)

\* The reader cancels the stream while the handler waits for a collaborator.
PeerCloses ==
    /\ pc \in {"idle", "acquire", "persist", "zip"}
    /\ peer = "open"
    /\ peer' = "closed"
    /\ UNCHANGED <<pc, req, k, events, stats, outputFiles, closeCalls, received,
                   acquired, parsed, scan, storage, now, download>>

\* sendEvent throws: the per-file catch block calls sendEvent and throws in
\* its turn, so does the outer catch block, and the finally block calls
\* close() on the way out.  st is the statistics object at the throw.
Abandon(st) ==
    /\ pc' = "done"
    /\ stats' = st
    /\ closeCalls' = Close(closeCalls)
    /\ UNCHANGED events

\* The request ends at the error event of a failed validation.
AbandonRejected ==
    /\ req' = NoRequest
    /\ Abandon(stats)
    /\ UNCHANGED k

\* The request ends at the file-start event of its first file.
AbandonAccepted(request) ==
    /\ req' = request
    /\ k' = 1
    /\ Abandon([InitStats(Len(request.files)) EXCEPT
                   !.currentFile = request.files[1].name])

\* The body arrives after the reader has gone.
AbandonPOST ==
    /\ pc = "idle"
    /\ EnqueueThrows(peer)
    /\ \/ \E body \in SearchBodies :
            /\ received' = Received("search", body)
            /\ IF SearchValidation(body) \in {"no-files", "no-term"}
               THEN AbandonRejected
               ELSE AbandonAccepted([route |-> SearchValidation(body)] @@ body)
       \/ \E body \in ReplaceBodies :
            /\ received' = Received("replace", body)
            /\ IF ReplaceValidation(body) # "replace"
               THEN AbandonRejected
               ELSE AbandonAccepted([route |-> "replace",
                                     files |-> FilesMap(body.searchResults),
                                     operations |-> OperationsOf(body),
                                     selectedFiles |-> body.selectedFiles])
       \/ \E handler \in {"search", "replace"} :
            /\ received' = [NoBody EXCEPT !.handler = handler]
            /\ AbandonRejected
    /\ UNCHANGED <<outputFiles, acquired, parsed, scan, storage, now, peer, download>>

\* The read settles after the reader has gone: the error event of a failed
\* read or parse, or the file-info event of a parsed file, throws.
AbandonAcquire ==
    /\ pc = "acquire"
    /\ EnqueueThrows(peer)
    /\ \/ /\ acquired' = Settle(acquired, "threw")
          /\ Abandon(stats)
          /\ UNCHANGED parsed
       \/ /\ Awaited \in Stored
          /\ acquired' = Settle(acquired, "malformed")
          /\ Abandon(stats)
          /\ UNCHANGED parsed
       \/ /\ Awaited \in Stored
          /\ acquired' = Settle(acquired, "ok")
          /\ parsed' = [k |-> k] @@ Parsed(Awaited)
          /\ Abandon([stats EXCEPT !.totalRows = @ + Len(Parsed(Awaited).data)])
    /\ UNCHANGED <<req, k, outputFiles, received, scan, storage, now, peer, download>>

\* saveProcessedFile settles after the reader has gone: the artifact is
\* recorded and counted, then file-complete throws; or the error event does.
AbandonPersist ==
    /\ pc = "persist"
    /\ EnqueueThrows(peer)
    /\ \/ \E ts \in Clock :
            LET path == SavedPath(ts, ReplacedFileName(File.path)) IN
            /\ now' = ts
            /\ storage' = WriteFile(storage, path, Unparse(parsed.fields, scan.out))
            /\ outputFiles' = Append(outputFiles,
                                     [originalPath |-> File.path,
                                      newPath |-> GetDownloadUrl(path)])
            /\ Abandon(CountFile(req.route, stats, GetDownloadUrl(path)))
       \/ /\ Abandon(stats)
          /\ UNCHANGED <<outputFiles, storage, now>>
    /\ UNCHANGED <<req, k, received, acquired, parsed, scan, peer, download>>

\* createZipFile settles after the reader has gone: `complete` throws.
AbandonZip ==
    /\ pc = "zip"
    /\ EnqueueThrows(peer)
    /\ \/ \E ts \in Clock :
            /\ now' = ts
            /\ storage' = WriteFile(storage, ZipPath(ts),
                                    Archive(storage, FilesToZip(FilesWithOutput(outputFiles))))
       \/ UNCHANGED <<storage, now>>
    /\ Abandon(stats)
    /\ UNCHANGED <<req, k, outputFiles, received, acquired, parsed, scan, peer, download>>

PeerNext ==
    \/ SearchPOST
    \/ ReplacePOST
    \/ MalformedPOST
    \/ StartFile
    \/ AcquireThrows
    \/ AcquireReturns
    \/ PersistReturns
    \/ PersistThrows
    \/ Finish
    \/ ZipReturns
    \/ ZipThrows
    \/ PeerCloses
    \/ AbandonPOST
    \/ AbandonAcquire
    \/ AbandonPersist
    \/ AbandonZip

\* The handlers with a reader that may go away at any await.
PeerSpec == Init /\ [][PeerNext]_vars

----------------------------------------------------------------------------
(* Download requests *)

\* A download request is answered.
Download ==
    /\ download = NoDownload
    /\ \E param \in FileParams : download' = Respond(param)
    /\ UNCHANGED <<pc, req, k, events, stats, outputFiles, closeCalls, received,
                   acquired, parsed, scan, storage, now, peer>>

\* The download handler by itself, over the parameters of FileParams.
DownloadSpec == Init /\ [][Download]_vars

----------------------------------------------------------------------------
(* Vocabulary of the properties *)

\* The request passed validation and entered a file loop.
Accepted == req.route \in {"simple", "advanced", "replace"}

SearchPhase == req.route \in {"simple", "advanced"}

Positions(type) == {i \in 1..Len(events) : events[i].type = type}

Count(type) == Cardinality(Positions(type))

Sent(type) == Positions(type) # {}

\* The events of the j-th started file: from its file-start up to the next
\* file-start or `complete`.
IsFileStart(i) == events[i].type = "file-start"

StartOf(j) == SelectSeq([i \in 1..Len(events) |-> i], IsFileStart)[j]

EndOf(j) ==
    IF j < Count("file-start") THEN StartOf(j + 1) - 1
    ELSE IF Sent("complete") THEN (CHOOSE i \in Positions("complete") : TRUE) - 1
    ELSE Len(events)

Segment(j) == SubSeq(events, StartOf(j), EndOf(j))

Ofs(seg, type) == {i \in 1..Len(seg) : seg[i].type = type}

\* The j-th file has been left: the loop is at a later file or over.
Left(j) == k > j

Sum(f, S) ==
    LET RECURSIVE Acc(_)
        Acc(T) == IF T = {} THEN 0
                  ELSE LET x == CHOOSE y \in T : TRUE IN f[x] + Acc(T \ {x})
    IN  Acc(S)

----------------------------------------------------------------------------
(* C1 *)

\* C1: every request that passes validation, whatever files fail to be read,
\* parsed or saved, eventually has a `complete` event on its channel.
C1_CompleteEventually == Accepted ~> Sent("complete")

\* A request with a failed file has completed.
C1_Witness ==
    /\ Accepted
    /\ Sent("complete")
    /\ \E j \in 1..Len(acquired) : acquired[j].outcome \in {"threw", "malformed"}

----------------------------------------------------------------------------
(* C2 *)

\* C2: on every path of both handlers controller.close() is called exactly
\* once: never twice, and once when the handler is over.
C2_ClosedExactlyOnce == closeCalls <= 1 /\ (pc = "done" => closeCalls = 1)

----------------------------------------------------------------------------
(* C3, C4 *)

\* The row predicate of the search phase.
Predicate(row) ==
    IF req.route = "simple" THEN RowMatchesSimple(row, HeadersOf(parsed), req)
    ELSE RowMatchesAdvanced(row, HeadersOf(parsed), req.advanced).matches

\* The value a replacement writes.
Replacement == IF req.route = "simple" THEN req.replaceTerm ELSE req.replaceValue

\* out is row with, at most, some cells overwritten by the replacement.
Carries(out, row) ==
    /\ DOMAIN out = DOMAIN row
    /\ \A f \in DOMAIN row : out[f] = row[f] \/ out[f] = Replacement

\* A row scan of the search phase has run to its end.
SearchScanned == SearchPhase /\ scan.scanned

\* C3: with showOnlyMatches the rows retained for a file are exactly the rows
\* the predicate accepted, in their order, whether or not a change record was
\* produced for them.
C3_OnlyMatchesRetained ==
    (SearchScanned /\ req.showOnlyMatches) =>
        LET kept == SelectSeq(parsed.data, Predicate) IN
        /\ Len(scan.out) = Len(kept)
        /\ \A j \in 1..Len(kept) : Carries(scan.out[j], kept[j])

\* C4: without showOnlyMatches as many rows are retained as were parsed, in
\* input order, and the rows the predicate rejected are retained as they are.
C4_AllRowsRetained ==
    (SearchScanned /\ ~req.showOnlyMatches) =>
        /\ Len(scan.out) = Len(parsed.data)
        /\ \A i \in 1..Len(parsed.data) :
             /\ Carries(scan.out[i], parsed.data[i])
             /\ ~Predicate(parsed.data[i]) => scan.out[i] = parsed.data[i]

\* An advanced scan without the filter kept a rejected row next to a row it
\* rewrote.
C4_Witness ==
    /\ SearchScanned
    /\ req.route = "advanced"
    /\ ~req.showOnlyMatches
    /\ \E i, j \in 1..Len(parsed.data) :
         /\ ~Predicate(parsed.data[i])
         /\ Predicate(parsed.data[j])
         /\ scan.out[j] # parsed.data[j]

----------------------------------------------------------------------------
(* C5 *)

\* The accepted request carries a pattern that new RegExp rejects.
InvalidPattern ==
    \/ req.route = "simple" /\ SearchRegexThrows(req)
    \/ /\ req.route = "advanced"
       /\ \E i \in 1..Len(ActiveConds(req.advanced)) :
            BuildFieldMatcherThrows(ActiveConds(req.advanced)[i])

\* C5: an invalid pattern fails the whole request: one error event, however
\* many files, and no `complete`.
C5_InvalidPatternFailsRequest ==
    InvalidPattern =>
        /\ Count("error") <= 1
        /\ ~Sent("complete")
        /\ pc = "done" => Count("error") = 1

----------------------------------------------------------------------------
(* C6 *)

\* The body that arrived lacks a required input.
MissingInput ==
    /\ received.wellFormed
    /\ \/ /\ received.handler = "search"
          /\ \/ received.body.files = <<>>
             \/ /\ received.body.advanced.conditions = <<>>
                /\ received.body.searchTerm = <<>>
       \/ /\ received.handler = "replace"
          /\ \/ received.body.searchResults = <<>>
             \/ \A i \in 1..Len(received.body.searchResults) :
                   received.body.searchResults[i].rows = <<>>
             \/ /\ received.body.replaceOperations = <<>>
                /\ \/ received.body.replaceTargetField = ""
                   \/ received.body.replaceValue = Undefined

\* C6: a request missing a required input gets exactly one error event, no
\* file-start, no `complete`, and no file of it is read.
C6_MissingInputRejected ==
    MissingInput =>
        /\ Count("error") = 1
        /\ ~Sent("file-start")
        /\ ~Sent("complete")
        /\ acquired = <<>>

\* A replay request whose search results retain no row has been turned down.
C6_Witness ==
    /\ MissingInput
    /\ received.handler = "replace"
    /\ received.body.searchResults # <<>>
    /\ received.body.replaceOperations # <<>>
    /\ pc = "done"

----------------------------------------------------------------------------
(* C7 *)

\* The j-th file is not the last one and its successor has been started or is
\* the one the loop starts next.
Proceeds(j) ==
    /\ pc \in {"file", "acquire", "persist", "zip", "done"}
    /\ j < Len(req.files) => Len(acquired) > j \/ (pc = "file" /\ k = j + 1)
    /\ pc = "done" => Count("file-start") = Len(req.files)

\* The files whose read returned a text that parsed.
ReadOk == {j \in 1..Len(acquired) : acquired[j].outcome = "ok"}

\* The j-th file failed in acquisition or parsing.
Unreadable(j) == acquired[j].outcome \in {"threw", "malformed"}

\* The segment holds one error event, which names the file.
OneErrorNaming(seg, file) ==
    /\ Cardinality(Ofs(seg, "error")) = 1
    /\ \A i \in Ofs(seg, "error") : seg[i].filename = file.name

\* No record of outputFiles is about the file.
NoOutputRecord(file) ==
    \A o \in 1..Len(outputFiles) : outputFiles[o].originalPath # file.path

\* C7: in the search phase a file whose acquisition fails or whose parse
\* reports errors gets exactly one error event naming it, no file-complete, no
\* outputFiles record and no count in processedFiles; the next file is started.
C7_UnreadableFileSkipped ==
    SearchPhase =>
        \A j \in 1..Len(acquired) :
            Unreadable(j) =>
                /\ OneErrorNaming(Segment(j), req.files[j])
                /\ Ofs(Segment(j), "file-complete") = {}
                /\ NoOutputRecord(req.files[j])
                /\ stats.processedFiles <= Cardinality(ReadOk)
                /\ stats.processedFiles = Len(outputFiles)
                /\ Proceeds(j)

\* The read of the first file was rejected and the second file completed.
C7_Witness ==
    /\ SearchPhase
    /\ Len(acquired) = 2
    /\ acquired[1].locator # ""
    /\ acquired[1].outcome = "threw"
    /\ Ofs(Segment(2), "file-complete") # {}
    /\ pc = "done"

----------------------------------------------------------------------------
(* C8 *)

\* The started files that ended with a file-complete event.
Completed == {j \in 1..Count("file-start") : Ofs(Segment(j), "file-complete") # {}}

\* The data of the event of the given type in the segment of the j-th file.
DataOf(j, type) ==
    Segment(j)[CHOOSE i \in Ofs(Segment(j), type) : TRUE].data

RowsOfFile == [j \in Completed |-> DataOf(j, "file-info").totalRows]

MatchesOfFile == [j \in Completed |-> DataOf(j, "file-complete").matchesCount]

ReplacementsOfFile ==
    [j \in Completed |-> DataOf(j, "file-complete").replacementsCount]

\* The statistics carried by the `complete` event.
CompleteData == events[CHOOSE i \in Positions("complete") : TRUE].data.stats

\* C8: the row, match and replacement counters of `complete` are the sums
\* over the files that ended with file-complete; a file that ended with an
\* error adds nothing to them.
C8_CompleteCountsCompletedFiles ==
    Sent("complete") =>
        /\ CompleteData.totalRows = Sum(RowsOfFile, Completed)
        /\ "processedRows" \in DOMAIN CompleteData =>
              CompleteData.processedRows = Sum(RowsOfFile, Completed)
        /\ SearchPhase => CompleteData.totalMatches = Sum(MatchesOfFile, Completed)
        /\ CompleteData.totalReplacements = Sum(ReplacementsOfFile, Completed)

----------------------------------------------------------------------------
(* C9 *)

\* A row scan of the replay phase has run to its end.
ReplayScanned == req.route = "replace" /\ scan.scanned

\* The 1-based row indices the search result of the scanned file names.
Named == Range(req.files[parsed.k].rows)

\* The fields the operations of the request name.
OpFields == {req.operations[j].field : j \in 1..Len(req.operations)}

\* C9: the replay scan writes every row; a row whose index the search result
\* does not name keeps every cell, and a named row keeps every cell of a field
\* no operation names.
C9_ReplayFrame ==
    ReplayScanned =>
        /\ Len(scan.out) = Len(parsed.data)
        /\ \A i \in 1..Len(parsed.data) :
             /\ DOMAIN scan.out[i] = DOMAIN parsed.data[i]
             /\ i \notin Named => scan.out[i] = parsed.data[i]
             /\ \A f \in DOMAIN parsed.data[i] :
                  f \notin OpFields => scan.out[i][f] = parsed.data[i][f]

\* A replay scan rewrote a named row and passed over an unnamed one.
C9_Witness ==
    /\ ReplayScanned
    /\ \E i \in Named : i \in 1..Len(parsed.data) /\ scan.out[i] # parsed.data[i]
    /\ \E i \in 1..Len(parsed.data) : i \notin Named
    /\ \E f \in Range(parsed.fields) : f \notin OpFields

\* In a replay scan every named index is out of range: nothing is rewritten.
C9_WitnessOutOfRange ==
    /\ ReplayScanned
    /\ Named # {}
    /\ Named \cap (1..Len(parsed.data)) = {}
    /\ parsed.data # <<>>

----------------------------------------------------------------------------
(* C10 *)

\* The operation fields the text read for the j-th file has no column for.
Missing(j) ==
    {f \in OpFields : f \notin Range(HeadersOf(Parsed(acquired[j].locator)))}

\* The j-th file of a replay was read and parsed and lacks an operation field.
LacksField(j) == acquired[j].outcome = "ok" /\ Missing(j) # {}

\* C10: a replay file lacking a field an operation names gets one error event
\* listing exactly the missing fields, no row-processed and no file-complete
\* event, no artifact record and no count in processedFiles; the loop goes on
\* to the files after it.
C10_MissingFieldAbortsFile ==
    req.route = "replace" =>
        \A j \in 1..Len(acquired) :
            LacksField(j) =>
                /\ OneErrorNaming(Segment(j), req.files[j])
                /\ \A i \in Ofs(Segment(j), "error") :
                      Range(Segment(j)[i].data.fields) = Missing(j)
                /\ Ofs(Segment(j), "row-processed") = {}
                /\ Ofs(Segment(j), "file-complete") = {}
                /\ NoOutputRecord(req.files[j])
                /\ stats.processedFiles = Len(FilesWithOutput(outputFiles))
                /\ Proceeds(j)

\* A replay file lacked a field, and the file after it completed.
C10_Witness ==
    /\ req.route = "replace"
    /\ Len(acquired) = 2
    /\ LacksField(1)
    /\ Ofs(Segment(2), "file-complete") # {}
    /\ pc = "done"

----------------------------------------------------------------------------
(* C11 *)

\* A replay scan changed cells of its file: there is an output to replay on.
ReplayChanged == ReplayScanned /\ scan.fileReplacements > 0

\* The replay scan of the output of the last scan, read back from its
\* artifact, with the same row selection and the same operations.
Rerun ==
    ScanRows(req.files[parsed.k], req,
             HeadersOf(Unparse(parsed.fields, scan.out)),
             Unparse(parsed.fields, scan.out).data, 1, InitScan(scan.st))

\* C11: replaying on the output of a replay, with the same row selection and
\* the same operations, changes nothing: no replacement is counted, no
\* row-processed event is sent and no artifact is to be saved.
C11_ReplayIdempotent ==
    ReplayChanged =>
        /\ Rerun.fileReplacements = 0
        /\ Rerun.st.totalReplacements = scan.st.totalReplacements
        /\ \A i \in 1..Len(Rerun.ev) : Rerun.ev[i].type # "row-processed"
        /\ AfterScan(req, Rerun) # "persist"

----------------------------------------------------------------------------
(* C12 *)

\* outputFiles holds a record with an artifact for the file.
HasArtifact(file) ==
    \E o \in 1..Len(outputFiles) :
        outputFiles[o].originalPath = file.path /\ outputFiles[o].newPath # NoPath

\* The replay scan of the j-th file applied a change (it reports each changed
\* row with a row-processed event).
ChangedInScan(j) == Ofs(Segment(j), "row-processed") # {}

\* The j-th file was read, parsed, has every operation field, and is left.
Replayable(j) == acquired[j].outcome = "ok" /\ Missing(j) = {} /\ Left(j)

\* The j-th file ended with a file-complete event.
Ended(j) == Ofs(Segment(j), "file-complete") # {}

\* C12 as stated: a replay file is counted and has an artifact exactly if a
\* change was applied to it; without a change it completes with no artifact;
\* processedFiles is the number of records with an artifact.
C12_CountedIffChanged ==
    req.route = "replace" =>
        /\ \A j \in 1..Len(acquired) :
              Replayable(j) =>
                  /\ ChangedInScan(j) <=> HasArtifact(req.files[j])
                  /\ ~ChangedInScan(j) =>
                        Ended(j) /\ DataOf(j, "file-complete").newPath = NoPath
        /\ stats.processedFiles = Len(FilesWithOutput(outputFiles))

\* C12, for the files whose save did not fail: a replay file that ended with
\* file-complete is counted and has an artifact exactly if a change was
\* applied to it; a file without a change ends with file-complete and no
\* artifact; an artifact belongs to a changed file that ended with
\* file-complete; processedFiles is the number of records with an artifact.
C12_CountedIffChangedAndSaved ==
    req.route = "replace" =>
        /\ \A j \in 1..Len(acquired) :
              Replayable(j) =>
                  /\ Ended(j) =>
                        /\ ChangedInScan(j) <=> HasArtifact(req.files[j])
                        /\ ChangedInScan(j) <=>
                              DataOf(j, "file-complete").newPath # NoPath
                  /\ ~ChangedInScan(j) => Ended(j)
                  /\ HasArtifact(req.files[j]) => Ended(j) /\ ChangedInScan(j)
        /\ stats.processedFiles = Len(FilesWithOutput(outputFiles))

\* A replay has completed one file with an artifact and one without.
C12_Witness ==
    /\ req.route = "replace"
    /\ pc = "done"
    /\ Len(outputFiles) = 2
    /\ Len(FilesWithOutput(outputFiles)) = 1
    /\ stats.processedFiles = 1
    /\ \E j \in 1..2 : Replayable(j) /\ ~ChangedInScan(j) /\ Ended(j)

----------------------------------------------------------------------------
(* C13 *)

\* Every condition of the configuration has an empty or blank value.
AllBlank(advanced) ==
    \A i \in 1..Len(advanced.conditions) : IsBlank(advanced.conditions[i].value)

\* Header lists a file can have.
HeaderLists == { <<>>, <<"h1">>, <<"h1", "h2">>, <<"h2", "h3">> }

\* The result of rowMatchesAdvanced for a row every condition lets pass
\* without naming a field.
VacuousMatch == [threw |-> FALSE, matches |-> TRUE, matchedFields |-> <<>>]

\* C13: a configuration whose conditions all have empty or blank values
\* matches every row with an empty matchedFields, for every header list and
\* under AND and OR alike; the scan counts every row of the file as a match.
C13_NoActiveConditionMatchesAll ==
    (req.route = "advanced" /\ AllBlank(req.advanced)) =>
        /\ \A lg \in {"AND", "OR"} :
             \A hs \in HeaderLists \cup {HeadersOf(parsed)} :
                \A i \in 1..Len(parsed.data) :
                   RowMatchesAdvanced(parsed.data[i], hs,
                                      [req.advanced EXCEPT !.logic = lg])
                     = VacuousMatch
        /\ SearchScanned => scan.fileMatches = Len(parsed.data)

\* A file of several rows was scanned under a configuration of blank
\* conditions only.
C13_Witness ==
    /\ req.route = "advanced"
    /\ AllBlank(req.advanced)
    /\ SearchScanned
    /\ Len(parsed.data) >= 2
    /\ scan.fileMatches = Len(parsed.data)

----------------------------------------------------------------------------
(* C14, C15 *)

\* The result of rowMatchesAdvanced for a rejected row.
NoMatch == [threw |-> FALSE, matches |-> FALSE, matchedFields |-> <<>>]

\* The active conditions of the request that name a column of the parsed file.
PresentConds ==
    LET Present(c) == c.field \in Range(HeadersOf(parsed))
    IN  SelectSeq(ActiveConds(req.advanced), Present)

\* An active condition of the request names a field the parsed file lacks.
AbsentActive == Len(PresentConds) < Len(ActiveConds(req.advanced))

\* rowMatchesAdvanced for the i-th row of the parsed file.
Decision(i) == RowMatchesAdvanced(parsed.data[i], HeadersOf(parsed), req.advanced)

\* An advanced request under the given logic has parsed a file that lacks the
\* field of an active condition.
AbsentCase(logic) ==
    /\ req.route = "advanced"
    /\ req.advanced.logic = logic
    /\ AbsentActive

\* A present active condition accepts the i-th row.
SomeHit(i) ==
    \E j \in 1..Len(PresentConds) :
        /\ ~BuildFieldMatcherThrows(PresentConds[j])
        /\ FieldMatch(PresentConds[j], req.advanced.caseSensitive,
                      parsed.data[i][PresentConds[j].field])

WithoutAbsent(i) ==
    IF ActiveConds(req.advanced) = <<>> THEN VacuousMatch
    ELSE IF PresentConds = <<>> THEN NoMatch
    ELSE RowMatchesAdvanced(parsed.data[i], HeadersOf(parsed),
                            [req.advanced EXCEPT !.conditions = PresentConds])

----------------------------------------------------------------------------
(* C16 *)

\* The search request supplies a replacement value, the empty string included.
Supplied ==
    IF req.route = "simple" THEN req.replaceTerm # Undefined
    ELSE req.replaceValue # Undefined

\* C16: a search request is in replace mode, so that each file it scans to
\* the end gets an artifact, exactly when it supplies a replacement value
\* other than undefined, in simple and in advanced mode.
C16_ReplaceModeIffSupplied ==
    SearchPhase =>
        \A j \in 1..Count("file-start") :
            Ended(j) => (Supplied <=> DataOf(j, "file-complete").newPath # NoPath)

----------------------------------------------------------------------------
(* C17 *)

\* A search request without replacement input.
PureSearch == SearchPhase /\ ~Supplied

\* Every change record of the event leaves the cell as it was.
Untouched(e) ==
    \A m \in 1..Len(e.data.matches) :
        e.data.matches[m].newValue = e.data.matches[m].oldValue

\* C17: a search without replacement input saves no artifact and changes no
\* cell: no record and no file-complete carries a newPath, no replacement is
\* counted, every change record has newValue = oldValue, and `complete` has
\* no download, is no zip and counts no replacement.
C17_PureSearchWritesNothing ==
    PureSearch =>
        /\ storage = <<>>
        /\ FilesWithOutput(outputFiles) = <<>>
        /\ \A i \in Positions("file-complete") :
              events[i].data.replacementsCount = 0 /\ events[i].data.newPath = NoPath
        /\ \A i \in Positions("row-processed") : Untouched(events[i])
        /\ \A i \in Positions("complete") :
              /\ events[i].data.downloadUrl = NoPath
              /\ events[i].data.isZip = FALSE
              /\ events[i].data.stats.totalReplacements = 0
        /\ SearchScanned =>
              \A i \in 1..Len(scan.out) : scan.out[i] \in Range(parsed.data)

\* A search without replacement input has reported matched rows, completed
\* its files and sent `complete`.
C17_Witness ==
    /\ PureSearch
    /\ Sent("row-processed")
    /\ Count("file-complete") = 2
    /\ Sent("complete")

----------------------------------------------------------------------------
(* C18, C19 *)

\* The data of the `complete` event.
Completion == events[CHOOSE i \in Positions("complete") : TRUE].data

\* The output records that carry an artifact.
Artifacts == FilesWithOutput(outputFiles)

\* The archives in the tmp directory.
Archives == {p \in DOMAIN storage : p.name = <<"processed", ".zip">>}

\* The file below TMP_DIR a download locator stands for.
Located(url) == [url EXCEPT !.prefix = ""]

\* The archive holds one entry per artifact: as many entries as artifacts,
\* the i-th with the content saved for the i-th.
OnePerArtifact(archive) ==
    /\ Len(archive.entries) = Len(Artifacts)
    /\ \A i \in 1..Len(Artifacts) :
          /\ Located(Artifacts[i].newPath) \in DOMAIN storage
          /\ archive.entries[i].content = storage[Located(Artifacts[i].newPath)]

\* C18: at `complete`, with several artifacts and the archive written, isZip
\* is set and downloadUrl locates an archive with one entry per artifact;
\* with one artifact downloadUrl is its newPath and isZip is false; with
\* none there is no downloadUrl and isZip is false.
C18_DownloadBundlesArtifacts ==
    Sent("complete") =>
        /\ (Len(Artifacts) > 1 /\ Archives # {}) =>
              /\ Completion.isZip
              /\ Located(Completion.downloadUrl) \in Archives
              /\ Completion.downloadUrl = GetDownloadUrl(Located(Completion.downloadUrl))
              /\ OnePerArtifact(storage[Located(Completion.downloadUrl)])
        /\ Len(Artifacts) = 1 =>
              ~Completion.isZip /\ Completion.downloadUrl = Artifacts[1].newPath
        /\ Len(Artifacts) = 0 =>
              ~Completion.isZip /\ Completion.downloadUrl = NoPath

\* The request had several artifacts and completed without an archive.
ArchiveFailed == Sent("complete") /\ Len(Artifacts) > 1 /\ Archives = {}

\* C19: when the archive of several artifacts fails, `complete` is still
\* sent, without downloadUrl and with isZip false; the failure adds no error
\* event (the errors are those of the files that did not complete), and the
\* output records keep their newPath, which still locate the saved artifacts.
C19_ArchiveFailureDegrades ==
    /\ pc = "zip" => Len(Artifacts) > 1 /\ ~Sent("complete")
    /\ ArchiveFailed =>
          /\ Completion.downloadUrl = NoPath
          /\ ~Completion.isZip
          /\ Count("error") = Count("file-start") - Count("file-complete")
          /\ SearchPhase => Completion.outputFiles = outputFiles
          /\ \A i \in 1..Len(Artifacts) :
                Located(Artifacts[i].newPath) \in DOMAIN storage

\* Two files were saved, the archive failed, and `complete` was sent.
C19_Witness ==
    /\ ArchiveFailed
    /\ pc = "done"
    /\ Len(Artifacts) = 2
    /\ Count("file-complete") = 2

----------------------------------------------------------------------------
(* C20 *)

\* The rows of a file of n rows after which a snapshot is due.
Due(n) == {i \in 1..n : i % 10 = 0 \/ i = n}

\* processedRows before the first row of the file scanned last.
RowsBefore == scan.st.processedRows - Len(parsed.data)

\* The row of the scanned file the event is about: the row a row-processed
\* event names, the row a snapshot counts last.
RowOf(e) ==
    IF e.type = "stats" THEN e.data.processedRows - RowsBefore ELSE e.data.rowIndex

\* The rows after which the scan sent a snapshot.
Snapshots == {RowOf(scan.ev[x]) : x \in {y \in 1..Len(scan.ev) : scan.ev[y].type = "stats"}}

\* C20: the row scan of a file of n rows, in each pipeline, sends one stats
\* snapshot right after row i exactly for the i that are multiples of 10 or
\* equal n, matched or not: the snapshot counts row i, follows the events of
\* the rows up to i and precedes those of the rows after i.
C20_StatsCadence ==
    scan.scanned =>
        /\ Snapshots = Due(Len(parsed.data))
        /\ Cardinality({y \in 1..Len(scan.ev) : scan.ev[y].type = "stats"})
             = Cardinality(Due(Len(parsed.data)))
        /\ \A x, y \in 1..Len(scan.ev) :
              x < y =>
                 /\ RowOf(scan.ev[x]) <= RowOf(scan.ev[y])
                 /\ scan.ev[x].type = "stats" => RowOf(scan.ev[x]) < RowOf(scan.ev[y])

\* A scan of more than ten rows sent a snapshot after its tenth row, which
\* it did not report, and one after its last row.
C20_Witness ==
    /\ scan.scanned
    /\ Len(parsed.data) > 10
    /\ 10 \in Snapshots
    /\ Len(parsed.data) \in Snapshots
    /\ \E x \in 1..Len(scan.ev) : scan.ev[x].type = "row-processed"
    /\ \A x \in 1..Len(scan.ev) :
          scan.ev[x].type = "row-processed" => RowOf(scan.ev[x]) # 10

----------------------------------------------------------------------------
(* C21 *)

\* The event is about the file: it names it, or names no file (a snapshot).
About(e, file) ==
    /\ e.filename \in {"", file.name}
    /\ e.type = "file-start" => e.data.path = file.path
    /\ e.type = "row-processed" => e.data.filePath = file.path

\* The row-processed events of the segment carry increasing row indices.
RowsInOrder(seg) ==
    \A x, y \in Ofs(seg, "row-processed") :
        x < y => seg[x].data.rowIndex < seg[y].data.rowIndex

\* C21: files are taken one at a time in request order and rows in order:
\* the j-th file-start is that of the j-th file, every event up to the next
\* file-start is about the j-th file, and the row-processed events of a file
\* carry strictly increasing rowIndex values.
C21_SerialOrder ==
    Accepted =>
        /\ Count("file-start") <= Len(req.files)
        /\ events # <<>> => events[1].type = "file-start"
        /\ \A j \in 1..Count("file-start") :
              /\ \A x \in 1..Len(Segment(j)) : About(Segment(j)[x], req.files[j])
              /\ RowsInOrder(Segment(j))

\* Two files were scanned one after the other, each reporting several rows.
C21_Witness ==
    /\ Accepted
    /\ pc = "done"
    /\ Count("file-start") = 2
    /\ \A j \in 1..2 : Cardinality(Ofs(Segment(j), "row-processed")) >= 2

----------------------------------------------------------------------------
(* C22 *)

\* The output record pushed last.
LastRecord == outputFiles[Len(outputFiles)]

\* The file scanned last has just been saved and completed.
JustSaved ==
    /\ pc = "file"
    /\ scan.scanned
    /\ parsed.k = k - 1
    /\ outputFiles # <<>>
    /\ LastRecord.originalPath = req.files[parsed.k].path
    /\ LastRecord.newPath # NoPath
    /\ Located(LastRecord.newPath) \in DOMAIN storage

\* What a parse of the artifact saved last reads: header line and rows.
SavedText == storage[Located(LastRecord.newPath)]

\* C22: parsing the artifact written for a file gives the header list of the
\* file, in its order, and as many rows as were retained, also when no row
\* was retained.
C22_ArtifactRoundTrip ==
    JustSaved =>
        /\ SavedText.fields = parsed.fields
        /\ Len(SavedText.data) = Len(scan.out)

----------------------------------------------------------------------------
(* C23 *)

\* The saved artifacts in the tmp directory (the archives aside).
SavedFiles == DOMAIN storage \ Archives

\* C23: the artifacts persisted get distinct storage names: no two output
\* records share a newPath, and every save created a file of its own (none
\* was overwritten).
C23_ArtifactNamesDistinct ==
    /\ \A i, j \in 1..Len(Artifacts) :
          i # j => Artifacts[i].newPath # Artifacts[j].newPath
    /\ Cardinality(SavedFiles) = Len(Artifacts)

----------------------------------------------------------------------------
(* C24 *)

\* The scan of the file at hand has just run to its end and the artifact is
\* about to be saved.
ScanDone == pc = "persist" /\ parsed.k = k /\ scan.scanned

\* Advanced replace mode with the target field among the headers.
AdvancedReplace ==
    /\ req.route = "advanced"
    /\ req.replaceTargetField # ""
    /\ req.replaceValue # Undefined
    /\ req.replaceTargetField \in Range(parsed.fields)

\* The row as the advanced replacement is to leave it.
Rewritten(row) ==
    IF Predicate(row) THEN [row EXCEPT ![req.replaceTargetField] = req.replaceValue]
    ELSE row

\* The matched rows whose target cell differed from the replacement value.
Differing ==
    {i \in 1..Len(parsed.data) :
        /\ Predicate(parsed.data[i])
        /\ parsed.data[i][req.replaceTargetField] # req.replaceValue}

\* totalReplacements as it stood when the file at hand was started.
ReplacementsBefore ==
    LET prior == {i \in Positions("stats") : i < StartOf(Count("file-start"))}
    IN  IF prior = {} THEN 0
        ELSE events[CHOOSE i \in prior : \A x \in prior : x <= i].data.totalReplacements

\* C24: in advanced replace mode with the target field present, a retained
\* matched row carries replaceValue in the target field and is otherwise as
\* parsed, a retained unmatched row is as parsed, and the file's replacement
\* counter and its share of totalReplacements are the number of matched rows
\* whose target cell differed from replaceValue.
C24_AdvancedReplace ==
    (ScanDone /\ AdvancedReplace) =>
        /\ ~req.showOnlyMatches =>
              scan.out = [i \in 1..Len(parsed.data) |-> Rewritten(parsed.data[i])]
        /\ req.showOnlyMatches =>
              \A j \in 1..Len(scan.out) :
                 \E i \in 1..Len(parsed.data) :
                    Predicate(parsed.data[i]) /\ scan.out[j] = Rewritten(parsed.data[i])
        /\ scan.fileReplacements = Cardinality(Differing)
        /\ stats.totalReplacements - ReplacementsBefore = Cardinality(Differing)

\* A scan rewrote a matched row, met a matched row that already held the
\* value, and met an unmatched row.
C24_Witness ==
    /\ ScanDone
    /\ AdvancedReplace
    /\ Differing # {}
    /\ \E i \in 1..Len(parsed.data) : Predicate(parsed.data[i]) /\ i \notin Differing
    /\ \E i \in 1..Len(parsed.data) : ~Predicate(parsed.data[i])

----------------------------------------------------------------------------
(* C25 *)

\* Simple replace mode with a replacement value that is not empty.
SimpleReplace ==
    req.route = "simple" /\ req.replaceTerm # Undefined /\ req.replaceTerm # <<>>

\* The fields selected for replacement.
ReplaceSet ==
    IF req.selectedFields = <<>> \/ "All" \in Range(req.selectedFields)
    THEN Range(HeadersOf(parsed))
    ELSE Range(req.selectedFields) \cap Range(HeadersOf(parsed))

\* The fields of the replace set whose cell differs from the replacement.
ToWrite(row) == {f \in ReplaceSet : row[f] # req.replaceTerm}

Overwritten(row) ==
    [f \in DOMAIN row |-> IF f \in ReplaceSet THEN req.replaceTerm ELSE row[f]]

\* The events of the file at hand.
CurrentSegment == Segment(Count("file-start"))

\* The change records sent for the row at position i of the file at hand.
ChangesOf(i) ==
    LET at == {x \in Ofs(CurrentSegment, "row-processed") :
                  CurrentSegment[x].data.rowIndex = i}
    IN  IF at = {} THEN <<>> ELSE CurrentSegment[CHOOSE x \in at : TRUE].data.matches

MatchedPositions == {i \in 1..Len(parsed.data) : Predicate(parsed.data[i])}

Writes == [i \in MatchedPositions |-> Cardinality(ToWrite(parsed.data[i]))]

\* C25: in simple replace mode every matched row leaves the scan with the
\* replacement value in every field of the replace set and its other fields
\* as parsed; its change records are one per field of the replace set whose
\* cell differed from the replacement, with the old and the new value, and
\* the replacement counters grow by as many.
C25_SimpleReplaceSet ==
    (ScanDone /\ SimpleReplace) =>
        /\ scan.out = LET kept == IF req.showOnlyMatches
                                  THEN SelectSeq(parsed.data, Predicate)
                                  ELSE parsed.data
                      IN  [j \in 1..Len(kept) |->
                              IF Predicate(kept[j]) THEN Overwritten(kept[j]) ELSE kept[j]]
        /\ \A i \in MatchedPositions :
              LET ch == ChangesOf(i) IN
              /\ Len(ch) = Cardinality(ToWrite(parsed.data[i]))
              /\ {ch[x].field : x \in 1..Len(ch)} = ToWrite(parsed.data[i])
              /\ \A x \in 1..Len(ch) :
                    /\ ch[x].oldValue = parsed.data[i][ch[x].field]
                    /\ ch[x].newValue = req.replaceTerm
        /\ scan.fileReplacements = Sum(Writes, MatchedPositions)
        /\ stats.totalReplacements - ReplacementsBefore = Sum(Writes, MatchedPositions)

\* A matched row had a selected field rewritten, a selected field that held
\* the value already, and a field outside the replace set.
C25_Witness ==
    /\ ScanDone
    /\ SimpleReplace
    /\ \E i \in MatchedPositions :
          /\ ToWrite(parsed.data[i]) # {}
          /\ ReplaceSet # Range(HeadersOf(parsed))
    /\ \E i \in MatchedPositions : ToWrite(parsed.data[i]) # ReplaceSet

----------------------------------------------------------------------------
(* C26 *)

\* The original files of the request that have the path of the j-th file.
OriginalsOf(j) ==
    {x \in 1..Len(req.selectedFiles) : req.selectedFiles[x].path = req.files[j].path}

\* C26: in the replay phase the bytes of a file are read from the original
\* file that has the file's path, also when another original file has the
\* same name.
C26_SourceByPath ==
    req.route = "replace" =>
        \A j \in 1..Len(acquired) :
           \A x \in OriginalsOf(j) :
              req.selectedFiles[x].url # "" =>
                 acquired[j].locator = req.selectedFiles[x].url

----------------------------------------------------------------------------
(* C27 *)

\* C27: once the reader has closed the channel no event is enqueued any
\* more (so no `complete`), no further file is acquired and no row scan is
\* made.
C27_PeerClosedAbandons ==
    [][peer = "closed" =>
          /\ events' = events
          /\ Len(acquired') = Len(acquired)
          /\ scan' = scan]_vars

\* A request was abandoned during its first file with a file left over.
C27_Witness ==
    /\ peer = "closed"
    /\ pc = "done"
    /\ req.route \in {"simple", "advanced", "replace"}
    /\ k < Len(req.files)
    /\ Len(acquired) = k
    /\ ~Sent("complete")

----------------------------------------------------------------------------
(* C28 *)

\* The cell values of a row in header order, joined by one space.
JoinedCells(row) == JoinSpace([j \in 1..Len(parsed.fields) |-> row[parsed.fields[j]]])

\* The rows of the parsed file whose joined text the pattern matches.
TextHits ==
    {i \in 1..Len(parsed.data) :
        RegExpTest(SearchRegex(req), JoinedCells(parsed.data[i]))}

\* The rows of the parsed file whose joined text contains the term, case
\* aside.
LiteralHits ==
    {i \in 1..Len(parsed.data) :
        Includes(LowerStr(JoinedCells(parsed.data[i])), LowerStr(req.searchTerm))}

\* Some cell of the row matches the pattern by itself.
SomeCellHit(row) ==
    \E f \in DOMAIN row : RegExpTest(SearchRegex(req), row[f])

\* C28: in simple mode the rows taken as matched are the rows whose cell
\* values, joined in header order by one space, are matched by the pattern;
\* for a literal term without word boundaries these are the rows whose
\* joined text contains the term.
C28_RowTextPredicate ==
    (SearchScanned /\ req.route = "simple") =>
        /\ scan.fileMatches = Cardinality(TextHits)
        /\ req.showOnlyMatches =>
              /\ Len(scan.out) = Cardinality(TextHits)
              /\ \A j \in 1..Len(scan.out) :
                    \E i \in TextHits : Carries(scan.out[j], parsed.data[i])
        /\ (~req.useRegex /\ ~req.wholeWord /\ ~req.caseSensitive) =>
              TextHits = LiteralHits

\* A literal term that spans two cells matched a row none of whose cells
\* matches it.
C28_Witness ==
    /\ SearchScanned
    /\ req.route = "simple"
    /\ ~req.useRegex
    /\ scan.fileMatches > 0
    /\ \E i \in TextHits : ~SomeCellHit(parsed.data[i])

----------------------------------------------------------------------------
(* C29 *)

\* The change records the pipeline of the request produces for a row.
SimpleChanges(row) ==
    LET Hit(f) == RegExpTest(SearchRegex(req), row[f]) IN
    IF ~Predicate(row) THEN <<>>
    ELSE IF IsReplaceModeSimple(req)
    THEN ApplyOps(row, HeadersOf(parsed),
                  SingleTargetOps(ReplaceFields(req.selectedFields, HeadersOf(parsed)),
                                  req.replaceTerm), <<>>).changes
    ELSE Unmodified(row, SelectSeq(HeadersOf(parsed), Hit))

AdvancedChanges(row) ==
    IF ~Predicate(row) THEN <<>>
    ELSE IF ReplacingAdvanced(req, HeadersOf(parsed))
    THEN ApplyOps(row, HeadersOf(parsed),
                  <<[field |-> req.replaceTargetField, value |-> req.replaceValue]>>,
                  <<>>).changes
    ELSE Unmodified(row, RowMatchesAdvanced(row, HeadersOf(parsed), req.advanced).matchedFields)

ReplayChanges(i) ==
    IF (i - 1) \in RowsToReplace(req.files[parsed.k].rows)
    THEN ApplyOps(parsed.data[i], HeadersOf(parsed), req.operations, <<>>).changes
    ELSE <<>>

ChangeRecords(i) ==
    CASE req.route = "simple"   -> SimpleChanges(parsed.data[i])
      [] req.route = "advanced" -> AdvancedChanges(parsed.data[i])
      [] req.route = "replace"  -> ReplayChanges(i)

HasChanges(i) == ChangeRecords(i) # <<>>

\* The positions of the rows with change records, ascending.
ChangedRows == SelectSeq([i \in 1..Len(parsed.data) |-> i], HasChanges)

IsRowProcessed(e) == e.type = "row-processed"

\* The row-processed events of the scan, as sent.
RowEvents == SelectSeq(scan.ev, IsRowProcessed)

\* C29: the row scan of each pipeline sends one row-processed event for each
\* row with at least one change record and none for the other rows; the
\* event carries the row's position counted from 1 and exactly the change
\* records of the row, and it is sent before anything of a later row: the
\* events come in row order, before the snapshot that counts the row.
C29_RowProcessedIffChanges ==
    scan.scanned =>
        /\ Len(RowEvents) = Len(ChangedRows)
        /\ \A j \in 1..Len(RowEvents) :
              /\ RowEvents[j].data.rowIndex = ChangedRows[j]
              /\ RowEvents[j].data.matches = ChangeRecords(ChangedRows[j])
              /\ RowEvents[j].data.filePath = req.files[parsed.k].path
        /\ \A x, y \in 1..Len(scan.ev) :
              (IsRowProcessed(scan.ev[x]) /\ ~IsRowProcessed(scan.ev[y])) =>
                 (x < y <=> RowOf(scan.ev[x]) <= RowOf(scan.ev[y]))

\* A scan reported a row with change records and passed over a row without.
C29_Witness ==
    /\ scan.scanned
    /\ RowEvents # <<>>
    /\ Len(ChangedRows) < Len(parsed.data)
    /\ ChangedRows[1] > 1

----------------------------------------------------------------------------
(* C30 *)

\* The result of rowMatchesAdvanced for the row at position i of the parsed
\* file.
Evaluated(i) == RowMatchesAdvanced(parsed.data[i], HeadersOf(parsed), req.advanced)

\* No element of the list stands in it twice.
NoRepeat(fs) == \A x, y \in 1..Len(fs) : x # y => fs[x] # fs[y]

\* fs lists, in the order of the conditions, the fields of the active
\* conditions that accept the row.
AcceptingFields(fs, row) ==
    /\ Range(fs) = {c.field : c \in {d \in Range(ActiveConds(req.advanced)) :
                                        /\ d.field \in Range(HeadersOf(parsed))
                                        /\ FieldMatch(d, req.advanced.caseSensitive,
                                                      row[d.field])}}
    /\ \A x, y \in 1..Len(fs) :
          x < y =>
             \E a, b \in 1..Len(req.advanced.conditions) :
                /\ a <= b
                /\ req.advanced.conditions[a].field = fs[x]
                /\ req.advanced.conditions[b].field = fs[y]

\* C30: for a row it accepts rowMatchesAdvanced returns the fields of the
\* accepting active conditions in condition order, each field once also
\* when several conditions name it; for a row it rejects, the empty list.
C30_MatchedFieldsOrderedSet ==
    (req.route = "advanced" /\ parsed.k > 0) =>
        \A i \in 1..Len(parsed.data) :
           ~Evaluated(i).threw =>
              IF Evaluated(i).matches
              THEN /\ AcceptingFields(Evaluated(i).matchedFields, parsed.data[i])
                   /\ NoRepeat(Evaluated(i).matchedFields)
              ELSE Evaluated(i).matchedFields = <<>>

----------------------------------------------------------------------------
(* C31 *)

\* Conditions whose value is empty or white space, on a field of the files,
\* on a field no file has, and with a mode that compiles its value.
BlankConds ==
    { Cond("h1", <<>>, "equals"),
      Cond("h9", <<" ">>, "contains"),
      Cond("h2", <<" ", " ">>, "regex") }

\* The configuration with condition b put in before position p.
WithCond(advanced, p, b) ==
    [advanced EXCEPT !.conditions =
        SubSeq(@, 1, p - 1) \o <<b>> \o SubSeq(@, p, Len(@))]

\* The configuration without its blank conditions.
WithoutBlank(advanced) ==
    LET Valued(c) == ~IsBlank(c.value)
    IN  [advanced EXCEPT !.conditions = SelectSeq(@, Valued)]

\* C31: for the rows of a parsed file and the configuration of the request,
\* under either logic, putting a blank condition in at any position, or
\* taking the blank conditions out, leaves the result of rowMatchesAdvanced
\* (decision and matchedFields) as it is.
C31_BlankConditionsInert ==
    (req.route = "advanced" /\ parsed.k > 0) =>
        \A i \in 1..Len(parsed.data) :
           \A lg \in {"AND", "OR"} :
              LET adv == [req.advanced EXCEPT !.logic = lg]
                  res == RowMatchesAdvanced(parsed.data[i], HeadersOf(parsed), adv)
              IN  /\ RowMatchesAdvanced(parsed.data[i], HeadersOf(parsed),
                                        WithoutBlank(adv)) = res
                  /\ \A b \in BlankConds :
                        \A p \in 1..(Len(adv.conditions) + 1) :
                           RowMatchesAdvanced(parsed.data[i], HeadersOf(parsed),
                                              WithCond(adv, p, b)) = res

\* A scan ran under a request whose configuration holds a blank condition
\* and accepted every row, as the configuration without it does.
C31_Witness ==
    /\ req.route = "advanced"
    /\ scan.scanned
    /\ parsed.data # <<>>
    /\ WithoutBlank(req.advanced) # req.advanced
    /\ scan.fileMatches = Len(parsed.data)

----------------------------------------------------------------------------
(* C32 *)

\* An advanced request that asks for a replacement.
AdvancedReplaceRequest ==
    /\ req.route = "advanced"
    /\ req.replaceTargetField # ""
    /\ req.replaceValue # Undefined

\* Every matcher of the configuration can be built.
Compiles == \A c \in Range(ActiveConds(req.advanced)) : ~BuildFieldMatcherThrows(c)

\* The content of the j-th file of the request.
ContentOf(j) == Parsed(req.files[j].url)

HasTarget(j) == req.replaceTargetField \in Range(ContentOf(j).fields)

\* The rows of the j-th file the predicate accepts with a target cell that
\* differs from the replacement value.
DifferingOf(j) ==
    {i \in 1..Len(ContentOf(j).data) :
        /\ RowMatchesAdvanced(ContentOf(j).data[i], HeadersOf(ContentOf(j)),
                              req.advanced).matches
        /\ ContentOf(j).data[i][req.replaceTargetField] # req.replaceValue}

\* C32: under an advanced replacement a file without the target field is
\* scanned to its end with no cell written, no replacement counted and no
\* error event, and every completed file reports 0 replacements if it lacks
\* the field and the number of its differing matched rows if it has it,
\* whatever files came before it.
C32_AbsentTargetSkipsFile ==
    AdvancedReplaceRequest =>
        /\ (parsed.k > 0 /\ Compiles
              /\ req.replaceTargetField \notin Range(parsed.fields)) =>
              /\ scan.scanned
              /\ scan.fileReplacements = 0
              /\ \A x \in 1..Len(scan.out) :
                    \E i \in 1..Len(parsed.data) : scan.out[x] = parsed.data[i]
              /\ ~req.showOnlyMatches => scan.out = parsed.data
              /\ ScanDone => Ofs(CurrentSegment, "error") = {}
        /\ \A j \in Completed :
              /\ Ofs(Segment(j), "error") = {}
              /\ ReplacementsOfFile[j] =
                    IF HasTarget(j) THEN Cardinality(DifferingOf(j)) ELSE 0

\* A file without the target field was completed with matches and without
\* replacements, and the file after it, which has the field, was replaced.
C32_Witness ==
    /\ AdvancedReplaceRequest
    /\ Completed = {1, 2}
    /\ ~HasTarget(1)
    /\ MatchesOfFile[1] > 0
    /\ HasTarget(2)
    /\ ReplacementsOfFile[2] > 0

----------------------------------------------------------------------------
(* C33 *)

\* The events of a segment that end a file.
Terminators(seg) == Ofs(seg, "file-complete") \cup Ofs(seg, "error")

\* C33: with the channel open the events of each started file hold at most
\* one terminating event, file-complete or error, and exactly one once the
\* loop has left the file; file-info is sent at most once and before the
\* first row-processed event; file-complete is directly followed by a stats
\* snapshot.
C33_FileProtocol ==
    Accepted =>
        \A j \in 1..Count("file-start") :
           /\ Segment(j)[1].type = "file-start"
           /\ Cardinality(Terminators(Segment(j))) <= 1
           /\ Left(j) => Cardinality(Terminators(Segment(j))) = 1
           /\ Cardinality(Ofs(Segment(j), "file-info")) <= 1
           /\ \A x \in Ofs(Segment(j), "file-info") :
                 \A y \in Ofs(Segment(j), "row-processed") : x < y
           /\ Ofs(Segment(j), "row-processed") # {} => Ofs(Segment(j), "file-info") # {}
           /\ \A x \in Ofs(Segment(j), "file-complete") :
                 /\ x < Len(Segment(j))
                 /\ Segment(j)[x + 1].type = "stats"

\* A request is over in which one file ended with file-complete after
\* file-info and row events, and another with an error after file-info.
C33_Witness ==
    /\ Accepted
    /\ pc = "done"
    /\ Count("file-start") = 2
    /\ \E a, b \in 1..2 :
          /\ Ofs(Segment(a), "file-complete") # {}
          /\ Ofs(Segment(a), "row-processed") # {}
          /\ Ofs(Segment(b), "error") # {}
          /\ Ofs(Segment(b), "file-info") # {}

----------------------------------------------------------------------------
(* C34 *)

\* The statistics record carries the counter.
Carried(st, counter) == counter \in DOMAIN st

\* The three relations between the counters of a statistics record.
Bounded(st) ==
    /\ Carried(st, "processedRows")
    /\ st.processedFiles <= st.totalFiles
    /\ st.processedRows <= st.totalRows
    /\ st.totalMatches <= st.processedRows

\* C34: every stats snapshot and the statistics of `complete` have
\* processedFiles <= totalFiles, processedRows <= totalRows and
\* totalMatches <= processedRows, in the search phase and in the replay.
C34_StatsBounded ==
    \A i \in 1..Len(events) :
       /\ events[i].type = "stats" => Bounded(events[i].data)
       /\ events[i].type = "complete" => Bounded(events[i].data.stats)

----------------------------------------------------------------------------
(* C35 *)

\* C35: with the channel open a request that passed validation has at most
\* one `complete` event, nothing is sent after it, and it has one when the
\* handler is over.
C35_CompleteOnceAndLast ==
    Accepted =>
        /\ Count("complete") <= 1
        /\ Sent("complete") => events[Len(events)].type = "complete"
        /\ pc = "done" => Count("complete") = 1

\* A request of two files, one of which ended with an error, is over and
\* `complete` stands after the events of both.
C35_Witness ==
    /\ Accepted
    /\ pc = "done"
    /\ Count("file-start") = 2
    /\ Sent("error")
    /\ Sent("file-complete")
    /\ events[Len(events)].type = "complete"

----------------------------------------------------------------------------
(* C36 *)

\* A simple request that asks for no replacement.
SimpleSearchOnly ==
    req.route = "simple" /\ req.replaceTerm \in {Undefined, <<>>}

\* The rows the row-level test accepts and one of whose cells matches.
CellHits == {i \in TextHits : SomeCellHit(parsed.data[i])}

\* C36: in simple search-only mode every row the row-level test accepts is
\* counted as a match of the file and of the request, a row-processed event
\* is sent for just those of them in which a cell matches by itself, so a
\* file never has more row-processed events than matches and may have fewer.
C36_MatchesWithoutRowEvent ==
    (scan.scanned /\ SimpleSearchOnly) =>
        /\ scan.fileMatches = Cardinality(TextHits)
        /\ parsed.k = 1 => scan.st.totalMatches = Cardinality(TextHits)
        /\ parsed.k \in Completed =>
              MatchesOfFile[parsed.k] = Cardinality(TextHits)
        /\ {RowEvents[j].data.rowIndex : j \in 1..Len(RowEvents)} = CellHits
        /\ Len(RowEvents) = Cardinality(CellHits)
        /\ Len(RowEvents) <= scan.fileMatches

\* A completed file reports a match and has no row-processed event.
C36_Witness ==
    /\ scan.scanned
    /\ SimpleSearchOnly
    /\ parsed.k \in Completed
    /\ MatchesOfFile[parsed.k] > 0
    /\ Ofs(Segment(parsed.k), "row-processed") = {}

----------------------------------------------------------------------------
(* C37 *)

\* The search results of the replay request as they arrived.
Entries == received.body.searchResults

\* The entries that name rows.
Naming == {x \in 1..Len(Entries) : Entries[x].rows # <<>>}

\* The rows named by entry x, as positions counted from 1.
NamedBy(x) == Range(Entries[x].rows)

\* The last entry with rows for the path of the file parsed last.
LastEntry ==
    CHOOSE x \in Naming :
       /\ Entries[x].path = req.files[parsed.k].path
       /\ \A y \in Naming : Entries[y].path = req.files[parsed.k].path => y <= x

\* C37: in the replay a path named by several entries is started once and
\* counted once in totalFiles, the rows named by the last entry with rows
\* have the operations applied, and all other rows, those named by earlier
\* entries included, are retained as parsed.
C37_LastEntryWins ==
    req.route = "replace" =>
        /\ stats.totalFiles = Cardinality({Entries[x].path : x \in Naming})
        /\ \A a, b \in Positions("file-start") :
              a # b => events[a].data.path # events[b].data.path
        /\ scan.scanned =>
              /\ Len(scan.out) = Len(parsed.data)
              /\ \A i \in 1..Len(parsed.data) :
                    scan.out[i] =
                       IF i \in NamedBy(LastEntry)
                       THEN ApplyOps(parsed.data[i], HeadersOf(parsed),
                                     req.operations, <<>>).row
                       ELSE parsed.data[i]

\* Two entries name different rows of one path; a row named by the first
\* only, which the operations would change, was retained as parsed, and a row
\* named by the second was rewritten.
C37_Witness ==
    /\ req.route = "replace"
    /\ scan.scanned
    /\ Len(Entries) = 2
    /\ Naming = {1, 2}
    /\ Entries[1].path = Entries[2].path
    /\ \E i \in NamedBy(1) \ NamedBy(2) :
          /\ i \in 1..Len(parsed.data)
          /\ ApplyOps(parsed.data[i], HeadersOf(parsed), req.operations, <<>>).row
                # parsed.data[i]
          /\ scan.out[i] = parsed.data[i]
    /\ \E i \in NamedBy(2) :
          /\ i \in 1..Len(parsed.data)
          /\ scan.out[i] # parsed.data[i]

----------------------------------------------------------------------------
(* C38 *)

\* The path is the tmp directory or lies below it.
InsideTmp(p) == p = TMP_DIR \/ StartsWith(p, TMP_DIR \o <<"/">>)

\* C38: whatever the `file` parameter, every path the download handler hands
\* to the file system lies inside the tmp directory; a missing parameter is
\* answered 400, and a parameter that names nothing on the disk below the
\* tmp directory 404.
C38_DownloadStaysInTmp ==
    download # NoDownload =>
        /\ \A p \in download.touched \cup download.read : InsideTmp(p)
        /\ download.param \in {Undefined, <<>>} => download.status = 400
        /\ download.status = 200 => download.read # {}
        /\ (download.touched # {} /\ \A p \in download.touched : OnDisk(p) = "none")
              => download.status = 404
        /\ download.status = 404 =>
              \E p \in download.touched : OnDisk(p) = "none"

\* A parameter that starts with a parent-directory segment and would name
\* the file next to the tmp directory was answered from inside it, with 404.
C38_Witness ==
    /\ download.param = <<".", ".", "/", "t", "t">>
    /\ download.status = 404
    /\ download.touched = {<<"/", "w", "/", "t", "/", "t", "t">>}

====
